---- MODULE Spec2Model ----
(***************************************************************************)
(* A model of the ephemeris engine (crate `horoscope`): the position entry *)
(* point calc_ut with its per-body branches, the Placidus house solver     *)
(* calc_houses, and the calendar conversion julday / revjul.               *)
(*                                                                         *)
(* Numbers.  The engine computes in IEEE binary64.  The model keeps the    *)
(* two properties of that arithmetic the code's guards are written for:    *)
(*   - a value carries a bounded number of significant bits (Prec here,    *)
(*     53 in binary64), and every sum, product and quotient is rounded to  *)
(*     the nearest such value, ties to even;                               *)
(*   - the remainder operator % is exact and keeps the dividend's sign.    *)
(* A value is an integer number of units of 2^-FracBits.  Library          *)
(* functions (sin, cos, tan, asin, atan, atan2) and the long periodic      *)
(* series are not evaluated: an action draws their results from sample     *)
(* sets that cover the range the function can return, boundary values      *)
(* included.                                                               *)
(***************************************************************************)
EXTENDS Integers, Sequences, FiniteSets, TLC

(***************************************************************************)
(* The modelled floating-point format                                      *)
(***************************************************************************)
\* significant bits of a value (binary64: 53)
Prec == 18
\* one unit is 2^-FracBits; every multiple of one unit below 16 is a value
FracBits == 14

Scale == 2^FracBits

\* the result of an overflowed computation (inf - inf, inf % 360): not a number
NaN == 0 - 2147483647

Abs(x) == IF x < 0 THEN 0 - x ELSE x

\* by how many bits n >= 0 exceeds Prec significant bits
RECURSIVE Excess(_)
Excess(n) == IF n < 2^Prec THEN 0 ELSE 1 + Excess(n \div 2)

\* The non-negative exact value q + f units, where fr tells the fraction f:
\* 0: f = 0, 1: 0 < f < 1/2, 2: f = 1/2, 3: 1/2 < f < 1, rounded to Prec
\* significant bits, ties to the even significand.
RoundMag(q, fr) ==
    LET s    == Excess(q)
        p    == 2^s
        m    == q \div p
        rem  == q % p
        half == p \div 2
        up   == IF s = 0
                THEN fr = 3 \/ (fr = 2 /\ m % 2 = 1)
                ELSE \/ rem > half
                     \/ (rem = half /\ fr > 0)
                     \/ (rem = half /\ fr = 0 /\ m % 2 = 1)
    IN  (IF up THEN m + 1 ELSE m) * p

Rnd(n) == IF n < 0 THEN 0 - RoundMag(0 - n, 0) ELSE RoundMag(n, 0)

\* a + b, a - b
FAdd(a, b) == IF a = NaN \/ b = NaN THEN NaN ELSE Rnd(a + b)
FSub(a, b) == IF a = NaN \/ b = NaN THEN NaN ELSE Rnd(a - b)

\* a % m for a positive m: exact, with the sign of a (Rust's % on f64)
FRem(a, m) ==
    IF a = NaN THEN NaN
    ELSE IF a < 0 THEN 0 - ((0 - a) % m) ELSE a % m

\* a * k and a / k for a small whole number k > 0
FMulInt(a, k) == IF a = NaN THEN NaN ELSE Rnd(a * k)

FDivInt(a, k) ==
    IF a = NaN THEN NaN
    ELSE LET n  == Abs(a)
             q  == n \div k
             r  == n % k
             fr == IF r = 0 THEN 0
                   ELSE IF 2 * r < k THEN 1
                   ELSE IF 2 * r = k THEN 2 ELSE 3
             v  == RoundMag(q, fr)
         IN  IF a < 0 THEN 0 - v ELSE v

\* a * b for two values: the exact product of the two unit counts, divided
\* by Scale, rounded once.  The product is formed from the whole and the
\* fractional parts of the operands so that no intermediate leaves the
\* 32-bit integers of the checker.
FMul(a, b) ==
    IF a = NaN \/ b = NaN THEN NaN
    ELSE LET x  == Abs(a)
             y  == Abs(b)
             xh == x \div Scale
             xl == x % Scale
             yh == y \div Scale
             yl == y % Scale
             q  == xh * y + xl * yh + ((xl * yl) \div Scale)
             r  == (xl * yl) % Scale
             fr == IF r = 0 THEN 0
                   ELSE IF 2 * r < Scale THEN 1
                   ELSE IF 2 * r = Scale THEN 2 ELSE 3
             v  == RoundMag(q, fr)
         IN  IF (a < 0) # (b < 0) THEN 0 - v ELSE v

\* comparisons: every comparison with NaN is false
FLt(a, b) == a # NaN /\ b # NaN /\ a < b
FGe(a, b) == a # NaN /\ b # NaN /\ a >= b
FGt(a, b) == a # NaN /\ b # NaN /\ a > b
FAbs(a)   == IF a = NaN THEN NaN ELSE Abs(a)

\* whole degrees (or hours, or radians) as a value
Whole(n) == n * Scale

(***************************************************************************)
(* constants.rs, math.rs                                                   *)
(***************************************************************************)
\* pi = 3.14159265..., rounded to the format
PI == Rnd(3 * Scale + ((14159 * Scale + 50000) \div 100000))
TWOPI == FMulInt(PI, 2)
\* 180 / pi = 57.2957795...
RAD_TO_DEG == Rnd(57 * Scale + ((29578 * Scale + 50000) \div 100000))

D360 == Whole(360)
D180 == Whole(180)

\* The guard of deg_norm, 1e-13.  In binary64 the values just below 360 are
\* 2^-44 apart, so the guard is 1.76 of those steps: more than the half
\* step under which y + 360.0 would round to 360.0.  The model keeps the
\* ratio: 7/4 of the step of its own format below 360.
DegNormEps == (7 * 2^(FracBits + 9 - Prec)) \div 4

\* a deg_norm without the guard for remainders next to zero
deg_norm_without_snap(x) ==
    LET y0 == FRem(x, D360)
    IN  IF FLt(y0, 0) THEN FAdd(y0, D360) ELSE y0

deg_norm(x) ==
    LET y0 == FRem(x, D360)
        y1 == IF FLt(FAbs(y0), DegNormEps) THEN 0 ELSE y0
    IN  IF FLt(y1, 0) THEN FAdd(y1, D360) ELSE y1

deg_norm_180(x) ==
    LET y == deg_norm(x)
    IN  IF FGt(y, D180) THEN FSub(y, D360) ELSE y

\* an angle_diff that leaves the difference as it is
angle_diff_without_wrap(a1, a2) == FSub(a1, a2)

angle_diff(a1, a2) == deg_norm_180(FSub(a1, a2))

\* math.rs sidereal_time: gmst is the unnormalised polynomial value (hours)
sidereal_time(gmst) ==
    LET result == FRem(gmst, Whole(24))
    IN  IF FLt(result, 0) THEN FAdd(result, Whole(24)) ELSE result

\* math.rs local_sidereal_time
local_sidereal_time(gmst, longitude) ==
    LET lst    == FAdd(sidereal_time(gmst), FDivInt(longitude, 15))
        result == FRem(lst, Whole(24))
    IN  IF FLt(result, 0) THEN FAdd(result, Whole(24)) ELSE result

\* math.rs armc
armc(gmst, longitude) == FMulInt(local_sidereal_time(gmst, longitude), 15)

(***************************************************************************)
(* Instants.  A Julian Day is a whole number of hundredths of a day, which *)
(* resolves the two differentiation steps of the engine (0.1 and 0.01      *)
(* day).  JdHuge stands for the instants, such as 1e60, at which the       *)
(* powers of the century count overflow: adding a step to it changes       *)
(* nothing, and every series evaluated there is not a number.              *)
(***************************************************************************)
J2000 == 245154500
MOSHIER_START == 62530750
MOSHIER_END == 281705750
SEFLG_SPEED == 256
JdHuge == 2^30

Overflows(jd) == jd = JdHuge
JdAdd(jd, d) == IF Overflows(jd) \/ Overflows(d) THEN JdHuge ELSE jd + d

\* lib.rs delta_t: TT - UT, by the year's branch, in hundredths of a day.
\* The year is kept to 0.01 and the seconds to whole seconds.
delta_t(jd) ==
    IF Overflows(jd) THEN JdHuge
    ELSE LET year100 == 200000 + (((jd - J2000) * 4) \div 1461)
             ms == IF year100 < 190000
                   THEN LET t == (year100 - 182000) \div 100
                        IN  (0 - 20000) + ((32 * t * t) \div 10)
                   ELSE IF year100 < 195000
                   THEN LET t == (year100 - 190000) \div 100
                        IN  (0 - 2790) + 1494 * t - 60 * t * t + 6 * t * t * t
                   ELSE IF year100 < 200500
                   THEN LET t == (year100 - 200000) \div 100
                        IN  63860 + 335 * t - 60 * t * t + 2 * t * t * t
                   ELSE IF year100 < 205000
                   THEN LET t == (year100 - 200000) \div 100
                        IN  62920 + 322 * t + 6 * t * t
                   ELSE LET t == (year100 - 182000) \div 100
                        IN  (0 - 20000) + ((32 * t * t) \div 10)
         IN  (ms + 432000) \div 864000

(***************************************************************************)
(* lib.rs: bodies, positions, errors                                       *)
(***************************************************************************)
KeplerPlanets == {"Mercury", "Venus", "Mars", "Jupiter", "Saturn",
                  "Uranus", "Neptune", "Pluto"}
Planets == {"Sun", "Moon", "TrueNode"} \cup KeplerPlanets

None == "None"

\* a from_i32 that also maps 10, the unimplemented mean node, to a body
from_i32_mapping_mean_node(id) ==
    CASE id \in 0..9 ->
             <<"Sun", "Moon", "Mercury", "Venus", "Mars", "Jupiter", "Saturn",
               "Uranus", "Neptune", "Pluto">>[id + 1]
      [] id = 10 -> "MeanNode"
      [] id = 11 -> "TrueNode"
      [] OTHER   -> None

\* Planet::from_i32
from_i32(id) ==
    CASE id = 0  -> "Sun"
      [] id = 1  -> "Moon"
      [] id = 2  -> "Mercury"
      [] id = 3  -> "Venus"
      [] id = 4  -> "Mars"
      [] id = 5  -> "Jupiter"
      [] id = 6  -> "Saturn"
      [] id = 7  -> "Uranus"
      [] id = 8  -> "Neptune"
      [] id = 9  -> "Pluto"
      [] id = 11 -> "TrueNode"
      [] OTHER   -> None

\* the discriminant of a Planet (planet as i32)
PlanetId(p) == CHOOSE id \in 0..11 : from_i32(id) = p

NoPosition == [none |-> TRUE]
Ok(p) == [tag |-> "Ok", arg |-> 0, pos |-> p]
Err(e, n) == [tag |-> e, arg |-> n, pos |-> NoPosition]

\* a Position that reports the rate of the longitude for every component
Position_with_three_speeds(lon, lat, dist, speed) ==
    [longitude |-> lon, latitude |-> lat, distance |-> dist,
     speed_longitude |-> speed, speed_latitude |-> speed,
     speed_distance |-> speed]

Position(lon, lat, dist, speed) ==
    [longitude |-> lon, latitude |-> lat, distance |-> dist,
     speed_longitude |-> speed, speed_latitude |-> 0, speed_distance |-> 0]

\* the literal -0.0529539 of nodes.rs
MeanNodeMotion == 0 - ((52954 * Scale + 500000) \div 1000000)

(***************************************************************************)
(* The series of one body at one instant are four numbers, s:              *)
(*   s.lon   the mean-longitude polynomial before normalisation (Sun,      *)
(*           Moon, node), or the atan2 angle in radians (Kepler bodies);   *)
(*   s.corr  the periodic correction added to the normalised mean          *)
(*           longitude (equation of centre, sum of terms, delta_omega);    *)
(*   s.lat, s.dist  latitude and distance.                                 *)
(* o[1] is the evaluation at the requested instant, o[2] the one at the    *)
(* offset instant used for the speed.                                      *)
(***************************************************************************)
\* planets.rs calc_sun
calc_sun(jd, calc_speed, o) ==
    LET l0      == deg_norm(o[1].lon)
        c       == o[1].corr
        sun_lon == deg_norm(FAdd(l0, c))
        r       == o[1].dist
        speed   == IF calc_speed
                   THEN LET l02      == deg_norm(o[2].lon)
                            c2       == o[2].corr
                            sun_lon2 == deg_norm(FAdd(l02, c2))
                        IN  FMulInt(angle_diff(sun_lon2, sun_lon), 100)
                   ELSE 0
    IN  Ok(Position(sun_lon, 0, r, speed))

\* planets.rs calc_planet_kepler; k numbers the evaluation
RECURSIVE calc_planet_kepler(_, _, _, _)
calc_planet_kepler(jd, k, calc_speed, o) ==
    LET dist == o[k].dist
        lon  == deg_norm(FMul(o[k].lon, RAD_TO_DEG))
        lat  == o[k].lat
        pos2 == calc_planet_kepler(JdAdd(jd, 10), 2, FALSE, o)
    IN  IF calc_speed /\ pos2.tag # "Ok" THEN pos2
        ELSE Ok(Position(lon, lat, dist,
                         IF calc_speed
                         THEN FMulInt(angle_diff(pos2.pos.longitude, lon), 10)
                         ELSE 0))

\* planets.rs calc_planet
calc_planet(jd_et, planet, calc_speed, o) ==
    IF jd_et < MOSHIER_START \/ jd_et > MOSHIER_END
    THEN Err("OutOfRange", 0)
    ELSE CASE planet = "Sun" -> calc_sun(jd_et, calc_speed, o)
           [] planet \in KeplerPlanets -> calc_planet_kepler(jd_et, 1, calc_speed, o)
           [] OTHER -> Err("InvalidPlanet", PlanetId(planet))

\* a calc_moon that differentiates whether or not the speed is requested
calc_moon_always_differentiating(jd_et, k, calc_speed, o) ==
    LET longitude == deg_norm(FAdd(deg_norm(o[k].lon), o[k].corr))
        lon2      == deg_norm(FAdd(deg_norm(o[2].lon), o[2].corr))
    IN  Ok(Position(longitude, o[k].lat, o[k].dist,
                    FMulInt(angle_diff(lon2, longitude), 100)))

\* moon.rs calc_moon
RECURSIVE calc_moon(_, _, _, _)
calc_moon(jd_et, k, calc_speed, o) ==
    LET lp        == deg_norm(o[k].lon)
        longitude == deg_norm(FAdd(lp, o[k].corr))
        latitude  == o[k].lat
        distance  == o[k].dist
        pos2      == calc_moon(JdAdd(jd_et, 1), 2, FALSE, o)
    IN  IF calc_speed /\ pos2.tag # "Ok" THEN pos2
        ELSE Ok(Position(longitude, latitude, distance,
                         IF calc_speed
                         THEN FMulInt(angle_diff(pos2.pos.longitude, longitude), 100)
                         ELSE 0))

\* a calc_true_node whose speed is the plain difference of the two longitudes
calc_true_node_plain_difference(jd_et, k, calc_speed, o) ==
    LET omega == deg_norm(FAdd(deg_norm(o[k].lon), o[k].corr))
        lon2  == deg_norm(FAdd(deg_norm(o[2].lon), o[2].corr))
    IN  Ok(Position(omega, 0, 0,
                    IF calc_speed THEN FMulInt(FSub(lon2, omega), 10)
                    ELSE MeanNodeMotion))

\* nodes.rs calc_true_node
RECURSIVE calc_true_node(_, _, _, _)
calc_true_node(jd_et, k, calc_speed, o) ==
    LET omega_mean  == deg_norm(o[k].lon)
        delta_omega == o[k].corr
        omega       == deg_norm(FAdd(omega_mean, delta_omega))
        pos2        == calc_true_node(JdAdd(jd_et, 10), 2, FALSE, o)
    IN  IF calc_speed /\ pos2.tag # "Ok" THEN pos2
        ELSE Ok(Position(omega, 0, 0,
                         IF calc_speed
                         THEN FMulInt(angle_diff(pos2.pos.longitude, omega), 10)
                         ELSE MeanNodeMotion))

\* lib.rs calc_ut
calc_ut(jd_ut, planet, speed, o) ==
    LET jd_et == JdAdd(jd_ut, delta_t(jd_ut))
    IN  CASE planet = "Moon" -> calc_moon(jd_et, 1, speed, o)
          [] planet = "TrueNode" -> calc_true_node(jd_et, 1, speed, o)
          [] OTHER -> calc_planet(jd_et, planet, speed, o)

(***************************************************************************)
(* houses.rs.  The trigonometry is drawn, not evaluated: every operator    *)
(* below takes the library results it needs as arguments and does the      *)
(* arithmetic, the comparisons and the normalisation the code does on      *)
(* them.  The three thresholds of the solver lie below the resolution of   *)
(* the model's format, so each is the smallest positive value, one unit:   *)
(* |x| < VERY_SMALL holds of 0 only, and a difference is below CONVERGENCE *)
(* when the two cusps are equal.                                           *)
(***************************************************************************)
VERY_SMALL == 1
CONVERGENCE == 1
MAX_ITER == 100

\* calc_mc: at is atan2(sin_armc, cos_armc * cos(eps))
calc_mc(at) == IF FLt(at, 0) THEN FAdd(at, TWOPI) ELSE at

\* calc_ascendant: at is atan2(y, x)
calc_ascendant(at) ==
    LET a0 == FAdd(at, PI)
        a1 == IF FLt(a0, 0) THEN FAdd(a0, TWOPI) ELSE a0
    IN  IF FGe(a1, TWOPI) THEN FSub(a1, TWOPI) ELSE a1

\* calc_vertex: the ascendant of the co-latitude; at is its atan2
calc_vertex(at) == calc_ascendant(at)

\* asc2_deg for x in [0, 90].  numer = sin(x) is below VERY_SMALL at x = 0
\* only; o.denom is the sign of the denominator after its own snap to 0,
\* o.atan the size of atan(numer / denom) in degrees.  The values
\* -VERY_SMALL and VERY_SMALL the code returns for numer = 0 are below the
\* resolution: the first becomes 180 by the code's own ass += 180.0, the
\* second is 0.
asc2_deg(x, f, o) ==
    IF Abs(x) < VERY_SMALL
    THEN (IF o.denom < 0 THEN D180 ELSE 0)
    ELSE LET ass == IF o.denom = 0 THEN Whole(90)
                    ELSE IF o.denom < 0 THEN 0 - o.atan ELSE o.atan
         IN  IF FLt(ass, 0) THEN FAdd(ass, D180) ELSE ass

\* asc1_deg
asc1_deg(x1in, f, o) ==
    LET x1 == deg_norm(x1in)
        n  == (x1 \div Whole(90)) + 1
    IN  IF Abs(Whole(90) - f) < VERY_SMALL THEN D180
        ELSE IF Abs(Whole(90) + f) < VERY_SMALL THEN 0
        ELSE LET raw == CASE n = 1 -> asc2_deg(x1, f, o)
                          [] n = 2 -> FSub(D180, asc2_deg(FSub(D180, x1), 0 - f, o))
                          [] n = 3 -> FAdd(D180, asc2_deg(FSub(x1, D180), 0 - f, o))
                          [] OTHER -> FSub(D360, asc2_deg(FSub(D360, x1), f, o))
                 ass == deg_norm(raw)
             IN  IF Abs(ass - D360) < VERY_SMALL THEN 0 ELSE ass

\* cusp_params of calc_placidus_cusps: cusp number, offset from the ARMC in
\* degrees, and which pole seed it starts from
cusp_params ==
    << [num |-> 11, offset |-> 30,  seed |-> 1],
       [num |-> 12, offset |-> 60,  seed |-> 2],
       [num |-> 2,  offset |-> 120, seed |-> 2],
       [num |-> 3,  offset |-> 150, seed |-> 1] >>

\* the descendant where the first cusp belongs
angular_cusps_descendant_first(mc, asc) ==
    [n \in 0..12 |->
        CASE n = 1  -> deg_norm(FMul(FAdd(asc, PI), RAD_TO_DEG))
          [] n = 10 -> deg_norm(FMul(mc, RAD_TO_DEG))
          [] n = 4  -> deg_norm(FMul(FAdd(mc, PI), RAD_TO_DEG))
          [] n = 7  -> deg_norm(FMul(asc, RAD_TO_DEG))
          [] OTHER  -> 0]

\* calc_placidus_cusps, first part: the array with cusps 1, 10, 4 and 7
angular_cusps(mc, asc) ==
    [n \in 0..12 |->
        CASE n = 1  -> deg_norm(FMul(asc, RAD_TO_DEG))
          [] n = 10 -> deg_norm(FMul(mc, RAD_TO_DEG))
          [] n = 4  -> deg_norm(FMul(FAdd(mc, PI), RAD_TO_DEG))
          [] n = 7  -> deg_norm(FMul(FAdd(asc, PI), RAD_TO_DEG))
          [] OTHER  -> 0]

\* cusp 5 taken opposite cusp 12 and cusp 6 opposite cusp 11
opposite_cusps_crossed(cusps) ==
    [cusps EXCEPT ![5] = deg_norm(FAdd(cusps[12], D180)),
                  ![6] = deg_norm(FAdd(cusps[11], D180)),
                  ![8] = deg_norm(FAdd(cusps[2], D180)),
                  ![9] = deg_norm(FAdd(cusps[3], D180))]

\* calc_placidus_cusps, last part: the opposite cusps
opposite_cusps(cusps) ==
    [cusps EXCEPT ![5] = deg_norm(FAdd(cusps[11], D180)),
                  ![6] = deg_norm(FAdd(cusps[12], D180)),
                  ![8] = deg_norm(FAdd(cusps[2], D180)),
                  ![9] = deg_norm(FAdd(cusps[3], D180))]

NoHouses == [none |-> TRUE]
OkHouses(h) == [tag |-> "Ok", houses |-> h]

\* a result that rejects an ARMC outside [0, 360)
houses_result_checking_armc(cusps, asc, mc, armc_deg, vertex) ==
    IF armc_deg >= 0 /\ armc_deg < D360
    THEN OkHouses([cusps |-> cusps,
                   ascendant |-> deg_norm(FMul(asc, RAD_TO_DEG)),
                   mc |-> deg_norm(FMul(mc, RAD_TO_DEG)),
                   armc |-> armc_deg,
                   vertex |-> deg_norm(FMul(vertex, RAD_TO_DEG))])
    ELSE [tag |-> "CalculationError", houses |-> NoHouses]

\* calc_houses_placidus: the value it returns
houses_result(cusps, asc, mc, armc_deg, vertex) ==
    OkHouses([cusps |-> cusps,
              ascendant |-> deg_norm(FMul(asc, RAD_TO_DEG)),
              mc |-> deg_norm(FMul(mc, RAD_TO_DEG)),
              armc |-> armc_deg,
              vertex |-> deg_norm(FMul(vertex, RAD_TO_DEG))])

(***************************************************************************)
(* State                                                                   *)
(***************************************************************************)
VARIABLES
    req,    \* the last position request: entry point, jd_ut, ipl, planet, speed
    ser,    \* the series values that request evaluated (o[1], o[2])
    res,    \* what calc_ut returned for it
    js,     \* what the binding swe_calc_ut handed to its caller
    jreq,   \* the last calendar date given to julday
    jday,   \* the Julian Day julday returned for it
    jrev,   \* the date revjul returned for that Julian Day
    hreq,   \* the last calc_houses request: jd_ut, lat, lon
    hpc,    \* where calc_houses_placidus stands
    harmc,  \* armc_deg
    hmc,    \* mc, radians
    hasc,   \* asc, radians
    hcusps, \* the array cusps[0..12]
    hidx,   \* the entry of cusp_params being solved
    hrect,  \* placidus_cusp_deg: rectasc
    hcusp,  \* placidus_cusp_deg: cusp
    hprev,  \* placidus_cusp_deg: prev_cusp
    hiter,  \* placidus_cusp_deg: the loop counter i
    hexit,  \* how the solver left its loop, for each entry of cusp_params
    hres,   \* what calc_houses returned
    call,   \* the last call of a helper function: its name and arguments
    ret,    \* what that call returned
    kreq,   \* solve_kepler: the arguments m and e
    kpc,    \* solve_kepler: where the call stands
    kea,    \* solve_kepler: ea
    ki,     \* solve_kepler: the number of passes of the loop made so far
    kdelta, \* solve_kepler: delta of the last pass
    world,  \* the values of the series, a fixed function of body and instant
    proc    \* the calls in progress, one per caller

posVars == <<req, ser, res, js>>
julVars == <<jreq, jday, jrev>>
solverVars == <<hrect, hcusp, hprev, hiter>>
houseVars == <<hreq, hpc, harmc, hmc, hasc, hcusps, hidx, hrect, hcusp, hprev,
               hiter, hexit, hres>>
helperVars == <<call, ret>>
keplerVars == <<kreq, kpc, kea, ki, kdelta>>
concVars == <<world, proc>>
restVars == <<helperVars, keplerVars, concVars>>
vars == <<req, ser, res, js, jreq, jday, jrev, hreq, hpc, harmc, hmc, hasc,
          hcusps, hidx, hrect, hcusp, hprev, hiter, hexit, hres, call, ret,
          kreq, kpc, kea, ki, kdelta, world, proc>>

(***************************************************************************)
(* Sample inputs of the position entry points                              *)
(***************************************************************************)
\* the distance between neighbouring values just below 360
StepBelow360 == 2^(FracBits + 9 - Prec)

JdSamples ==
    {0, MOSHIER_START - 100, MOSHIER_START, 242415150, J2000, 245884950,
     247345950, MOSHIER_END - 10, MOSHIER_END, MOSHIER_END + 100, JdHuge}

IdSamples == (0 - 1) .. 12

FlagSamples == {0, 2, SEFLG_SPEED, SEFLG_SPEED + 2}

LonSamples == {0 - Whole(725), 0 - 1, 0, D360 - StepBelow360, Whole(1085)}
CorrSamples == {0 - Whole(2), 0 - 1, (3 * Scale) \div 2}
AtanSamples == {0 - PI, 0 - 1, 0, PI}
LatSamples == {0 - Whole(5)}
DistSamples == {Whole(1)}

NoSeries == [lon |-> 0, corr |-> 0, lat |-> 0, dist |-> 0]

\* the values the series of a body can take at an instant
Series(planet, jd) ==
    IF planet = None THEN {NoSeries}
    ELSE IF Overflows(jd)
    THEN {[lon |-> NaN, corr |-> NaN, lat |-> NaN, dist |-> NaN]}
    ELSE IF planet \in KeplerPlanets
    THEN [lon : AtanSamples, corr : {0}, lat : LatSamples, dist : DistSamples]
    ELSE [lon : LonSamples, corr : CorrSamples, lat : LatSamples, dist : DistSamples]

IdleResult == [tag |-> "Idle", arg |-> 0, pos |-> NoPosition]

NoRequest == [entry |-> "none", jd_ut |-> J2000, ipl |-> 0, planet |-> "Sun",
              speed |-> FALSE]

PosIdle ==
    /\ req = NoRequest
    /\ ser = [k \in 1..2 |-> NoSeries]
    /\ res = IdleResult
    /\ js = "none"

NoDate == [year |-> 0, month |-> 0, day |-> 0, hour |-> 0, gregflag |-> 0]
NoJd == [civil |-> 0, frac |-> 0]

JulIdle ==
    /\ jreq = [stage |-> "none", date |-> NoDate]
    /\ jday = NoJd
    /\ jrev = NoDate

NoCusps == [n \in 0..12 |-> 0]
NoExits == [k \in 1..4 |-> "none"]
NoHouseRequest == [jd_ut |-> 0, lat |-> 0, lon |-> 0]

HousesIdle ==
    /\ hreq = NoHouseRequest
    /\ hpc = "idle"
    /\ harmc = 0 /\ hmc = 0 /\ hasc = 0
    /\ hcusps = NoCusps
    /\ hidx = 0
    /\ hrect = 0 /\ hcusp = 0 /\ hprev = 0 /\ hiter = 0
    /\ hexit = NoExits
    /\ hres = [tag |-> "Idle", houses |-> NoHouses]

NoCall == [fn |-> "none"]

HelperIdle ==
    /\ call = NoCall
    /\ ret = "none"

NoKeplerRequest == [m |-> 0, e |-> 0]

KeplerIdle ==
    /\ kreq = NoKeplerRequest
    /\ kpc = "idle"
    /\ kea = 0 /\ ki = 0 /\ kdelta = 0

ConcIdle ==
    /\ world = <<>>
    /\ proc = <<>>

RestIdle == HelperIdle /\ KeplerIdle /\ ConcIdle

InitPos == PosIdle /\ JulIdle /\ HousesIdle /\ RestIdle

(***************************************************************************)
(* lib.rs: calc_ut called with a Planet                                    *)
(***************************************************************************)
CalcUt(jd_ut, planet, speed) ==
    /\ req.entry = "none"
    /\ \E o \in [1..2 -> Series(planet, JdAdd(jd_ut, delta_t(jd_ut)))] :
        /\ req' = [entry |-> "calc_ut", jd_ut |-> jd_ut, ipl |-> PlanetId(planet),
                   planet |-> planet, speed |-> speed]
        /\ ser' = o
        /\ res' = calc_ut(jd_ut, planet, speed, o)
        /\ js' = "none"
        /\ UNCHANGED <<julVars, houseVars, restVars>>

(***************************************************************************)
(* wasm.rs: swe_calc_ut called with a raw body number and flags            *)
(***************************************************************************)
SweCalcUt(jd_ut, ipl, iflag) ==
    /\ req.entry = "none"
    /\ LET planet     == from_i32(ipl)
           calc_speed == (iflag \div SEFLG_SPEED) % 2 = 1
       IN  \E o \in [1..2 -> Series(planet, JdAdd(jd_ut, delta_t(jd_ut)))] :
            /\ req' = [entry |-> "swe_calc_ut", jd_ut |-> jd_ut, ipl |-> ipl,
                       planet |-> planet, speed |-> calc_speed]
            /\ ser' = o
            /\ res' = IF planet = None THEN IdleResult
                      ELSE calc_ut(jd_ut, planet, calc_speed, o)
            /\ js' = IF planet = None THEN "null"
                     ELSE IF calc_ut(jd_ut, planet, calc_speed, o).tag = "Ok"
                     THEN "position" ELSE "null"
            /\ UNCHANGED <<julVars, houseVars, restVars>>

\* The library keeps nothing between calls: the caller takes the result and
\* the next request starts from the same state as the first.
PosReturn ==
    /\ req.entry # "none"
    /\ req' = NoRequest
    /\ ser' = [k \in 1..2 |-> NoSeries]
    /\ res' = IdleResult
    /\ js' = "none"
    /\ UNCHANGED <<julVars, houseVars, restVars>>

CalcUtCall ==
    /\ req.entry = "none"
    /\ \E jd_ut \in JdSamples, planet \in Planets, speed \in BOOLEAN :
           CalcUt(jd_ut, planet, speed)

SweCalcUtCall ==
    /\ req.entry = "none"
    /\ \E jd_ut \in JdSamples, ipl \in IdSamples, iflag \in FlagSamples :
           SweCalcUt(jd_ut, ipl, iflag)

NextPos ==
    \/ PosReturn
    \/ CalcUtCall
    \/ SweCalcUtCall

SpecPos == InitPos /\ [][NextPos]_vars

(***************************************************************************)
(* Properties of the position entry points                                 *)
(***************************************************************************)
BodyIds == (0 .. 9) \cup {11}

\* a request that reached calc_ut
Called == req.entry # "none" /\ req.planet # None

\* the ephemeris time of the request, jd_ut + delta_t(jd_ut)
ReqEt == JdAdd(req.jd_ut, delta_t(req.jd_ut))

InRange(jd) == jd >= MOSHIER_START /\ jd <= MOSHIER_END

InCircle(x) == x # NaN /\ x >= 0 /\ x < D360

\* the longitude the series o[k] give for the Moon and for the node
SeriesLon(k) == deg_norm(FAdd(deg_norm(ser[k].lon), ser[k].corr))

\* C1: calc_ut returns OutOfRange for every body when jd_ut + delta_t lies
\* outside [625307.5, 2817057.5].
C1_OutOfRangeForEveryBody ==
    (Called /\ ~InRange(ReqEt)) => res.tag = "OutOfRange"

\* C5: every position calc_ut returns with Ok has its longitude in [0, 360).
C5_OkLongitudeInCircle ==
    (Called /\ res.tag = "Ok") => InCircle(res.pos.longitude)

\* C7: InvalidPlanet is never returned for one of the eleven bodies; each of
\* them yields a position at an in-range instant; from_i32 maps exactly the
\* identifiers 0..9 and 11, so no other identifier reaches calc_ut.
C7_ElevenBodies ==
    /\ \A id \in IdSamples : (from_i32(id) # None) <=> (id \in BodyIds)
    /\ \A id \in BodyIds : from_i32(id) \in Planets
    /\ res.tag # "InvalidPlanet"
    /\ (Called /\ InRange(ReqEt)) => res.tag = "Ok"
    /\ (req.entry = "swe_calc_ut" /\ req.ipl \notin BodyIds)
           => (req.planet = None /\ res = IdleResult /\ js = "null")

C7_Witness ==
    /\ req.entry = "swe_calc_ut" /\ req.ipl = 11 /\ req.planet = "TrueNode"
    /\ InRange(ReqEt) /\ res.tag = "Ok" /\ js = "position"

\* C8: the node's speed_longitude is the constant -0.0529539 when no speed
\* is requested; when it is requested it is the shortest-path difference of
\* the node longitudes at jd_et + 0.1 and at jd_et, divided by 0.1.
C8_NodeSpeed ==
    (Called /\ req.planet = "TrueNode" /\ res.tag = "Ok") =>
        IF req.speed
        THEN \E d \in {angle_diff(SeriesLon(2), SeriesLon(1))} :
                 /\ res.pos.speed_longitude = FMulInt(d, 10)
                 /\ d # NaN =>
                        /\ d > 0 - D180 /\ d <= D180
                        /\ \E turn \in {0 - D360, 0, D360} :
                               Abs(d - (SeriesLon(2) - SeriesLon(1)) - turn)
                                   <= StepBelow360
        ELSE res.pos.speed_longitude = MeanNodeMotion

C8_Witness ==
    /\ Called /\ req.planet = "TrueNode" /\ req.speed /\ res.tag = "Ok"
    /\ ~Overflows(ReqEt)
    /\ SeriesLon(2) - SeriesLon(1) > D180
    /\ res.pos.speed_longitude < 0
    /\ res.pos.speed_longitude # MeanNodeMotion

\* C9 as stated: without a speed request all three speed components are 0
\* for every body.
C9_AllSpeedsZero ==
    (Called /\ res.tag = "Ok" /\ ~req.speed) =>
        /\ res.pos.speed_longitude = 0
        /\ res.pos.speed_latitude = 0
        /\ res.pos.speed_distance = 0

\* C9 amended: without a speed request speed_latitude and speed_distance are
\* 0 for every body, and speed_longitude is 0 for every body but the true
\* node, whose speed_longitude is the constant -0.0529539.
C9_SpeedsZeroButNode ==
    (Called /\ res.tag = "Ok" /\ ~req.speed) =>
        /\ res.pos.speed_longitude =
               (IF req.planet = "TrueNode" THEN MeanNodeMotion ELSE 0)
        /\ res.pos.speed_latitude = 0
        /\ res.pos.speed_distance = 0

C9_Witness ==
    /\ Called /\ ~req.speed /\ res.tag = "Ok" /\ req.planet = "TrueNode"
    /\ res.pos.speed_longitude = MeanNodeMotion /\ MeanNodeMotion # 0
    /\ res.pos.speed_latitude = 0 /\ res.pos.speed_distance = 0

(***************************************************************************)
(* julian.rs.  A Julian Day is kept as the civil day number                *)
(* civil = floor(jd + 0.5) and the fraction of that day, counted in the    *)
(* steps the format resolves at the size of a Julian Day: JdSteps steps    *)
(* to the day (2^31 in binary64 for the Julian Days of this era).  An hour *)
(* is a count of sub-steps, HourSub to the step, so that an hour can fall  *)
(* between two representable Julian Days and julday has to round it.       *)
(***************************************************************************)
\* log2 of the number of representable Julian Days in one day
SpacingBits == 26
\* hours are resolved HourSub times finer than Julian Days
HourSub == 4
SE_GREG_CAL == 1

JdSteps == 2^SpacingBits
\* a whole day, 24 hours, in sub-steps
DayLen == HourSub * JdSteps
\* 1e-6 hour in sub-steps, rounded down
HourTol == DayLen \div 24000000

\* the nearest whole number of steps to n sub-steps, ties to even
RoundToStep(n) ==
    LET q == n \div HourSub
        r == n % HourSub
    IN  IF 2 * r > HourSub \/ (2 * r = HourSub /\ q % 2 = 1) THEN q + 1 ELSE q

julday(year, month, day, hour, gregflag) ==
    LET u   == IF month < 3 THEN year - 1 ELSE year
        u0  == u + 4712
        u1  == IF month + 1 < 4 THEN month + 13 ELSE month + 1
        \* floor(u0 * 365.25) + floor(30.6 * u1 + 0.000001) + day
        n   == ((1461 * u0) \div 4) + ((306 * u1) \div 10) + day
        \* + hour / 24.0: the sum is rounded to a representable Julian Day
        h   == RoundToStep(hour)
        \* - 63.5, with the half day folded into the civil day number
        c0  == n + (h \div JdSteps) - 63
        u2a == (Abs(u) \div 100) - (Abs(u) \div 400)
        u2  == IF u < 0 THEN 0 - u2a ELSE u2a
        c1  == IF gregflag = SE_GREG_CAL
               THEN c0 - u2 + 2
                    - (IF u < 0 /\ u % 100 = 0 /\ u % 400 # 0 THEN 1 ELSE 0)
               ELSE c0
    IN  [civil |-> c1, frac |-> h % JdSteps]

\* revjul; century_step is the 1.0 added to u1 from jd 1830691.5 on
revjul_with(j, gregflag, century_step) ==
    LET n0   == j.civil + 32082
        u1   == n0 + (n0 \div 36525) - (n0 \div 146100) - 38
                + (IF j.civil >= 1830692 THEN century_step ELSE 0)
        n1   == IF gregflag = SE_GREG_CAL
                THEN n0 + (u1 \div 36525) - (u1 \div 146100) - 38
                ELSE n0
        u2   == n1 + 123
        u3   == (20 * u2 - 2444) \div 7305
        y365 == (1461 * u3) \div 4
        u4   == (10000 * (u2 - y365)) \div 306001
        month == IF u4 - 1 > 12 THEN u4 - 13 ELSE u4 - 1
        day  == u2 - y365 - ((306001 * u4) \div 10000)
        year == u3 + ((u4 - 2) \div 12) - 4800
        hour == j.frac * HourSub
    IN  [year |-> year, month |-> month, day |-> day, hour |-> hour,
         gregflag |-> gregflag]

revjul_without_century_step(j, gregflag) == revjul_with(j, gregflag, 0)

revjul(j, gregflag) == revjul_with(j, gregflag, 1)

(***************************************************************************)
(* Sample dates                                                            *)
(***************************************************************************)
IsLeap(y) == y % 4 = 0 /\ (y % 100 # 0 \/ y % 400 = 0)

DaysIn(y, m) ==
    IF m = 2 THEN (IF IsLeap(y) THEN 29 ELSE 28)
    ELSE IF m \in {4, 6, 9, 11} THEN 30 ELSE 31

YearSamples ==
    {0 - 3000, 0 - 2001, 0 - 401, 0 - 400, 0 - 399, 0 - 101, 0 - 100, 0 - 99,
     0 - 4, 0 - 1, 0, 1, 4, 100, 299, 300, 301, 400, 1582, 1600, 1900, 2000,
     2024, 2100, 3000}

DaySamples == {1, 2, 15, 28, 29, 30, 31}

HourSamples ==
    {0, 1, 2, DayLen \div 2, DayLen - (HourTol + 2), DayLen - (HourTol + 1),
     DayLen - 2, DayLen - 1}

Julday(year, month, day, hour, gregflag) ==
    /\ jreq.stage = "none"
    /\ jreq' = [stage |-> "julday",
                date |-> [year |-> year, month |-> month, day |-> day,
                          hour |-> hour, gregflag |-> gregflag]]
    /\ jday' = julday(year, month, day, hour, gregflag)
    /\ jrev' = NoDate
    /\ UNCHANGED <<posVars, houseVars, restVars>>

Revjul ==
    /\ jreq.stage = "julday"
    /\ jreq' = [jreq EXCEPT !.stage = "revjul"]
    /\ jrev' = revjul(jday, jreq.date.gregflag)
    /\ UNCHANGED <<jday, posVars, houseVars, restVars>>

JulReturn ==
    /\ jreq.stage = "revjul"
    /\ jreq' = [stage |-> "none", date |-> NoDate]
    /\ jday' = NoJd
    /\ jrev' = NoDate
    /\ UNCHANGED <<posVars, houseVars, restVars>>

InitJul == PosIdle /\ JulIdle /\ HousesIdle /\ RestIdle

JuldayCall ==
    /\ jreq.stage = "none"
    /\ \E year \in YearSamples, month \in 1..12, hour \in HourSamples,
          gregflag \in {0, SE_GREG_CAL} :
           \E day \in DaySamples \cap (1 .. DaysIn(year, month)) :
               Julday(year, month, day, hour, gregflag)

NextJul ==
    \/ JuldayCall
    \/ Revjul
    \/ JulReturn

SpecJul == InitJul /\ [][NextJul]_vars

\* a Gregorian round trip has been made
RoundTrip == jreq.stage = "revjul" /\ jreq.date.gregflag = SE_GREG_CAL

SameDate ==
    /\ jrev.year = jreq.date.year
    /\ jrev.month = jreq.date.month
    /\ jrev.day = jreq.date.day
    /\ Abs(jrev.hour - jreq.date.hour) <= HourTol

\* C10 as stated: revjul(julday(y, m, d, h, GREG), GREG) gives back y, m, d
\* and an hour within 1e-6 of h, for every valid Gregorian date and every
\* hour in [0, 24).
C10_RoundTripEveryHour == RoundTrip => SameDate

\* C10 amended: the same for the dates of the years -3000..3000 and every
\* hour in [0, 24 - 1e-6].
C10_RoundTripBelowLastMicroHour ==
    (RoundTrip /\ jreq.date.hour <= DayLen - (HourTol + 1)) => SameDate

C10_Witness ==
    /\ RoundTrip /\ jreq.date.year < 0 /\ jreq.date.month = 2
    /\ jreq.date.day = 29
    /\ jreq.date.hour = DayLen - (HourTol + 2)
    /\ jrev.hour # jreq.date.hour
    /\ SameDate

(***************************************************************************)
(* calc_houses: sample inputs and the values the library functions take    *)
(***************************************************************************)
\* the sidereal-time polynomial gmst0 + ut * 1.00273790935 at the sample
\* instants 2451544.5 and 2447984.5: 6.664... and -227.26... hours
GmstRaw(jd_ut) ==
    IF jd_ut = J2000 - 50
    THEN Rnd((6664 * Scale) \div 1000)
    ELSE 0 - Rnd((22726 * Scale) \div 100)

\* the longitude that brings the local sidereal time of 2451544.5 one unit
\* below 0 hours (-99.96 degrees), the one that brings it to 4 hours
\* (-39.96 degrees), and 10 degrees east
LonToMidnight == 0 - Rnd(15 * (GmstRaw(J2000 - 50) + 1))
LonToFourHours == 0 - Rnd(15 * (GmstRaw(J2000 - 50) - Whole(4)))

\* the sample requests: jd_ut, lat, lon
HouseSamples ==
    {<<J2000 - 50, Whole(45), LonToMidnight>>,
     <<J2000 - 50, Whole(45), LonToFourHours>>,
     <<J2000 - 50, 0 - Whole(70), Whole(10)>>,
     <<J2000 - 356050, Whole(45), Whole(10)>>,
     <<J2000 - 356050, 0 - Whole(70), LonToMidnight>>}

\* tan(lat)
TanLat(lat) ==
    IF lat = Whole(45) THEN Whole(1) ELSE 0 - ((27475 * Scale) \div 10000)

\* fh1 and fh2 of calc_placidus_cusps at those latitudes, to the degree
PoleSeed(lat, k) ==
    IF lat = Whole(45) THEN (IF k = 1 THEN Whole(19) ELSE Whole(34))
    ELSE (IF k = 1 THEN 0 - Whole(49) ELSE 0 - Whole(63))

\* atan2(sin_armc, cos_armc * cos(eps)) has the sign of sin(armc)
McAtan(armc_deg) ==
    IF armc_deg = 0 \/ armc_deg = D360 THEN {0}
    ELSE IF armc_deg = D180 THEN {PI}
    ELSE IF armc_deg < D180 THEN {(17 * Scale) \div 10}
    ELSE {0 - ((11 * Scale) \div 10)}

\* atan2(-cos_armc, x) has the sign of -cos(armc)
AscAtan(armc_deg) ==
    IF armc_deg > Whole(90) /\ armc_deg < Whole(270)
    THEN {(9 * Scale) \div 4 + 3}
    ELSE IF armc_deg = Whole(90) \/ armc_deg = Whole(270) THEN {0, PI}
    ELSE {0 - (Scale + 3)}
VertexAtanSamples == {0 - PI, (5 * Scale) \div 4}

\* tan(decl), decl = asin(sin(eps) * sin(cusp)): it has the sign of
\* sin(cusp), it is below VERY_SMALL at cusp = 0 and 180 only, and it is at
\* most tan(eps) = 0.4336
TanDecl(cusp) ==
    IF cusp = 0 \/ cusp = D180 THEN {0}
    ELSE IF cusp < D180 THEN {Scale \div 5, (43 * Scale) \div 100}
    ELSE {0 - (Scale \div 5), 0 - ((43 * Scale) \div 100)}

\* the new pole height f_deg, degrees
PoleSamples == {Whole(30)}

\* what asc2_deg gets from the library: the sign of its denominator and the
\* size of the arc tangent, degrees
Asc2Samples == {[denom |-> 1, atan |-> Whole(33) + 4],
                [denom |-> 0 - 1, atan |-> Whole(33) + 4]}

(***************************************************************************)
(* lib.rs calc_houses -> houses.rs calc_houses_placidus, up to the loop    *)
(* over cusp_params                                                        *)
(***************************************************************************)
CalcHouses(jd_ut, lat, lon) ==
    /\ hpc = "idle"
    /\ \E mc_at \in McAtan(armc(GmstRaw(jd_ut), lon)), asc_at \in AscAtan(armc(GmstRaw(jd_ut), lon)) :
        /\ hreq' = [jd_ut |-> jd_ut, lat |-> lat, lon |-> lon]
        /\ harmc' = armc(GmstRaw(jd_ut), lon)
        /\ hmc' = calc_mc(mc_at)
        /\ hasc' = calc_ascendant(asc_at)
        /\ hcusps' = angular_cusps(calc_mc(mc_at), calc_ascendant(asc_at))
        /\ hidx' = 1
        /\ hpc' = "seed"
        /\ UNCHANGED <<solverVars, hexit, hres, posVars, julVars, restVars>>

CalcHousesCall ==
    /\ hpc = "idle"
    /\ \E in \in HouseSamples : CalcHouses(in[1], in[2], in[3])

\* placidus_cusp_deg is entered for cusp_params[hidx]: the seed value
PlacidusSeed ==
    /\ hpc = "seed"
    /\ \E o \in Asc2Samples :
        LET rectasc == deg_norm(FAdd(harmc, Whole(cusp_params[hidx].offset)))
        IN  /\ hrect' = rectasc
            /\ hcusp' = asc1_deg(rectasc, PoleSeed(hreq.lat, cusp_params[hidx].seed), o)
    /\ hprev' = 0
    /\ hiter' = 0
    /\ hpc' = "iter"
    /\ UNCHANGED <<hreq, harmc, hmc, hasc, hcusps, hidx, hexit, hres, posVars, julVars, restVars>>

\* placidus_cusp_deg returns c; calc_placidus_cusps stores it and goes on
\* to the next entry of cusp_params
PlacidusReturn(c, how) ==
    /\ hcusps' = [hcusps EXCEPT ![cusp_params[hidx].num] = c]
    /\ hexit' = [hexit EXCEPT ![hidx] = how]
    /\ hidx' = IF hidx < 4 THEN hidx + 1 ELSE hidx
    /\ hpc' = IF hidx < 4 THEN "seed" ELSE "finish"
    /\ hrect' = 0 /\ hcusp' = 0 /\ hprev' = 0 /\ hiter' = 0
    /\ UNCHANGED <<hreq, harmc, hmc, hasc, hres, posVars, julVars, restVars>>

Circumpolar(tan_decl) == FGt(FAbs(FMul(TanLat(hreq.lat), tan_decl)), Whole(1))

\* the convergence test of the loop
Converged(cusp) ==
    /\ hiter > 0
    /\ LET d0   == FAbs(FSub(cusp, hprev))
           diff == IF FGt(d0, D180) THEN FSub(D360, d0) ELSE d0
       IN  FLt(diff, CONVERGENCE)

\* a loop that makes one pass more than MAX_ITER
LastPassOneLate(i) == i = MAX_ITER

\* `for i in 0..MAX_ITER`: the pass with counter i is the last one
LastPass(i) == i + 1 = MAX_ITER

\* a fallback that keeps the current estimate
fallback_cusp_keeping_estimate(rectasc, cusp) == cusp

\* `cusp = rectasc; break;`: what the two degenerate branches return
fallback_cusp(rectasc, cusp) == rectasc

\* one pass of the loop, by the branch it takes
PlacidusEquator ==
    /\ hpc = "iter"
    /\ \E tan_decl \in TanDecl(hcusp) :
        /\ Abs(tan_decl) < VERY_SMALL
        /\ PlacidusReturn(fallback_cusp(hrect, hcusp), "equator")

PlacidusCircumpolar ==
    /\ hpc = "iter"
    /\ \E tan_decl \in TanDecl(hcusp) :
        /\ ~(Abs(tan_decl) < VERY_SMALL)
        /\ Circumpolar(tan_decl)
        /\ PlacidusReturn(fallback_cusp(hrect, hcusp), "circumpolar")

PlacidusConverged ==
    /\ hpc = "iter"
    /\ \E tan_decl \in TanDecl(hcusp), f_deg \in PoleSamples, o \in Asc2Samples :
        /\ ~(Abs(tan_decl) < VERY_SMALL)
        /\ ~Circumpolar(tan_decl)
        /\ LET new == asc1_deg(hrect, f_deg, o)
           IN  /\ Converged(new)
               /\ PlacidusReturn(new, "converged")

PlacidusContinue ==
    /\ hpc = "iter"
    /\ ~LastPass(hiter)
    /\ \E tan_decl \in TanDecl(hcusp), f_deg \in PoleSamples, o \in Asc2Samples :
        /\ ~(Abs(tan_decl) < VERY_SMALL)
        /\ ~Circumpolar(tan_decl)
        /\ LET new == asc1_deg(hrect, f_deg, o)
           IN  /\ ~Converged(new)
               /\ hcusp' = new
               /\ hprev' = new
    /\ hiter' = hiter + 1
    /\ UNCHANGED <<hreq, hpc, harmc, hmc, hasc, hcusps, hidx, hrect, hexit, hres,
                   posVars, julVars, restVars>>

\* the last pass: the loop ends without having converged
PlacidusExhausted ==
    /\ hpc = "iter"
    /\ LastPass(hiter)
    /\ \E tan_decl \in TanDecl(hcusp), f_deg \in PoleSamples, o \in Asc2Samples :
        /\ ~(Abs(tan_decl) < VERY_SMALL)
        /\ ~Circumpolar(tan_decl)
        /\ LET new == asc1_deg(hrect, f_deg, o)
           IN  /\ ~Converged(new)
               /\ PlacidusReturn(new, "exhausted")

\* calc_placidus_cusps fills the opposite cusps; calc_houses_placidus
\* computes the vertex and returns
HousesFinish ==
    /\ hpc = "finish"
    /\ \E vertex_at \in VertexAtanSamples :
        /\ hcusps' = opposite_cusps(hcusps)
        /\ hres' = houses_result(opposite_cusps(hcusps), hasc, hmc, harmc,
                                 calc_vertex(vertex_at))
    /\ hpc' = "done"
    /\ UNCHANGED <<hreq, harmc, hmc, hasc, hidx, solverVars, hexit, posVars, julVars, restVars>>

HousesReturn ==
    /\ hpc = "done"
    /\ hreq' = NoHouseRequest
    /\ hpc' = "idle"
    /\ harmc' = 0 /\ hmc' = 0 /\ hasc' = 0
    /\ hcusps' = NoCusps
    /\ hidx' = 0
    /\ hrect' = 0 /\ hcusp' = 0 /\ hprev' = 0 /\ hiter' = 0
    /\ hexit' = NoExits
    /\ hres' = [tag |-> "Idle", houses |-> NoHouses]
    /\ UNCHANGED <<posVars, julVars, restVars>>

InitHouses == PosIdle /\ JulIdle /\ HousesIdle /\ RestIdle

NextHouses ==
    \/ CalcHousesCall
    \/ PlacidusSeed
    \/ PlacidusEquator
    \/ PlacidusCircumpolar
    \/ PlacidusConverged
    \/ PlacidusContinue
    \/ PlacidusExhausted
    \/ HousesFinish
    \/ HousesReturn

SpecHouses == InitHouses /\ [][NextHouses]_vars

(***************************************************************************)
(* Properties of calc_houses                                               *)
(***************************************************************************)
HousesDone == hpc = "done"

\* how far two longitudes are from being opposite, measured exactly
OppositionError(a, b) == Abs(((b - a) % D360) - D180)

\* 0.01 degree
Hundredth == Scale \div 100

\* C2: in the returned houses cusps[1] is the ascendant and cusps[10] is
\* the MC, exactly.
C2_AngularCusps ==
    HousesDone =>
        /\ hres.tag = "Ok"
        /\ hres.houses.cusps[1] = hres.houses.ascendant
        /\ hres.houses.cusps[10] = hres.houses.mc

C2_Witness ==
    /\ HousesDone /\ hres.tag = "Ok"
    /\ hres.houses.cusps[1] = hres.houses.ascendant
    /\ hres.houses.cusps[10] = hres.houses.mc
    /\ hres.houses.ascendant # 0
    /\ hres.houses.mc # 0
    /\ hres.houses.ascendant # hres.houses.mc
    /\ hres.houses.cusps[7] # hres.houses.cusps[1]

\* C3 as stated: the six pairs of opposite cusps (1,7), (2,8), (3,9),
\* (4,10), (5,11), (6,12) are exactly 180 degrees apart (mod 360), however
\* the solver left its loop.
C3_OppositeExactly ==
    HousesDone =>
        \A i \in 1..6 :
            OppositionError(hres.houses.cusps[i], hres.houses.cusps[i + 6]) = 0

\* C3 amended: the six pairs are 180 degrees apart (mod 360) to within
\* 0.01 degree, however the solver left its loop.
C3_OppositeWithinHundredth ==
    HousesDone =>
        \A i \in 1..6 :
            OppositionError(hres.houses.cusps[i], hres.houses.cusps[i + 6])
                <= Hundredth

C3_Witness ==
    /\ HousesDone /\ hres.tag = "Ok"
    /\ \E k \in 1..4 : hexit[k] = "converged"
    /\ \E k \in 1..4 : hexit[k] = "circumpolar"
    /\ \E k \in 1..4 : hexit[k] = "exhausted"
    /\ \E i \in 1..6 :
           /\ OppositionError(hres.houses.cusps[i], hres.houses.cusps[i + 6]) > 0
           /\ OppositionError(hres.houses.cusps[i], hres.houses.cusps[i + 6])
                  <= Hundredth

\* C4: for a latitude in (-90, 90) the twelve cusps, the ascendant, the MC,
\* the ARMC and the vertex all lie in [0, 360).
C4_AllAnglesInCircle ==
    HousesDone =>
        /\ \A i \in 1..12 : InCircle(hres.houses.cusps[i])
        /\ InCircle(hres.houses.ascendant)
        /\ InCircle(hres.houses.mc)
        /\ InCircle(hres.houses.armc)
        /\ InCircle(hres.houses.vertex)

\* C6: calc_houses returns Ok for every latitude in (-90, 90), whatever
\* jd_ut and longitude: it has no error exit, and its loop ends within
\* MAX_ITER passes.
C6_HousesAlwaysOk ==
    /\ hpc # "idle" => (hreq.lat > 0 - Whole(90) /\ hreq.lat < Whole(90))
    /\ hpc = "iter" => hiter < MAX_ITER
    /\ HousesDone => hres.tag = "Ok"

C6_Witness ==
    /\ HousesDone /\ hres.tag = "Ok"
    /\ hreq.lat = 0 - Whole(70)
    /\ hreq.lon < 0 - Whole(90)
    /\ \E k \in 1..4 : hexit[k] = "circumpolar"

(***************************************************************************)
(* astrology.rs: the helper functions that classify longitudes and dates.  *)
(* Each is called with explicit arguments and returns a value; call and    *)
(* ret hold the last call and its result.                                  *)
(***************************************************************************)
MoonPhases ==
    <<"NewMoon", "WaxingCrescent", "FirstQuarter", "WaxingGibbous",
      "FullMoon", "WaningGibbous", "LastQuarter", "WaningCrescent">>

get_moon_phase_without_wrap(sun_longitude, moon_longitude) ==
    LET diff == FSub(moon_longitude, sun_longitude)
    IN  IF FLt(diff, 0) THEN "WaningCrescent"
        ELSE MoonPhases[(diff \div Whole(45)) + 1]

get_moon_phase(sun_longitude, moon_longitude) ==
    LET diff0 == FSub(moon_longitude, sun_longitude)
        diff1 == IF FLt(diff0, 0) THEN FAdd(diff0, D360) ELSE diff0
        diff  == IF FGe(diff1, D360) THEN FSub(diff1, D360) ELSE diff1
    IN  IF FLt(diff, Whole(45)) THEN "NewMoon"
        ELSE IF FLt(diff, Whole(90)) THEN "WaxingCrescent"
        ELSE IF FLt(diff, Whole(135)) THEN "FirstQuarter"
        ELSE IF FLt(diff, Whole(180)) THEN "WaxingGibbous"
        ELSE IF FLt(diff, Whole(225)) THEN "FullMoon"
        ELSE IF FLt(diff, Whole(270)) THEN "WaningGibbous"
        ELSE IF FLt(diff, Whole(315)) THEN "LastQuarter"
        ELSE "WaningCrescent"

\* Longitudes in [0, 360): the multiples of 45 degrees, values a rounding
\* step above each, and the smallest and largest values.
PhaseLonSamples ==
    {Rnd(Whole(45) * k + d) :
         k \in 0..7, d \in {0, StepBelow360 \div 4, StepBelow360}}
        \cup {1, Whole(44), Whole(359), D360 - StepBelow360}

GetMoonPhase(sun_longitude, moon_longitude) ==
    /\ call = NoCall
    /\ call' = [fn |-> "get_moon_phase", sun |-> sun_longitude,
                moon |-> moon_longitude]
    /\ ret' = get_moon_phase(sun_longitude, moon_longitude)
    /\ UNCHANGED <<posVars, julVars, houseVars, keplerVars, concVars>>

GetMoonPhaseCall ==
    /\ call = NoCall
    /\ \E sun_longitude \in PhaseLonSamples, moon_longitude \in PhaseLonSamples :
           GetMoonPhase(sun_longitude, moon_longitude)

\* i32 division and remainder: the quotient is truncated toward zero and the
\* remainder has the sign of the dividend
TruncDiv(a, b) == IF a >= 0 THEN a \div b ELSE 0 - ((0 - a) \div b)
TruncRem(a, b) == a - b * TruncDiv(a, b)

CHALDEAN_ORDER == <<"saturn", "jupiter", "mars", "sun", "venus", "mercury", "moon">>
DAY_RULERS == <<"sun", "moon", "mars", "mercury", "jupiter", "venus", "saturn">>

\* CHALDEAN_ORDER.iter().position(..).unwrap_or(0), counted from 0
ChaldeanPosition(ruler) ==
    IF \E i \in 1..7 : CHALDEAN_ORDER[i] = ruler
    THEN (CHOOSE i \in 1..7 : CHALDEAN_ORDER[i] = ruler) - 1
    ELSE 0

\* the h of Zeller's congruence, 0 = Saturday, taken as the day of the week
day_of_week_counted_from_saturday(year, month, day) ==
    LET m == IF month < 3 THEN month + 12 ELSE month
        y == IF month < 3 THEN year - 1 ELSE year
        k == TruncRem(y, 100)
        j == TruncDiv(y, 100)
    IN  (day + TruncDiv(13 * (m + 1), 5) + k + TruncDiv(k, 4)
             + TruncDiv(j, 4) - 2 * j) % 7

\* the day of the week the function computes, 0 = Sunday
day_of_week(year, month, day) ==
    LET m == IF month < 3 THEN month + 12 ELSE month
        y == IF month < 3 THEN year - 1 ELSE year
        q == day
        k == TruncRem(y, 100)
        j == TruncDiv(y, 100)
        h == TruncRem(q + TruncDiv(13 * (m + 1), 5) + k + TruncDiv(k, 4)
                        + TruncDiv(j, 4) - 2 * j, 7)
    IN  TruncRem(h + 6, 7)

get_planetary_hour_ruler(year, month, day, hour) ==
    LET day_ruler   == DAY_RULERS[day_of_week(year, month, day) + 1]
        start_index == ChaldeanPosition(day_ruler)
        hour_index  == (start_index + hour) % 7
    IN  CHALDEAN_ORDER[hour_index + 1]

HourYearSamples ==
    {0 - 3000, 0 - 401, 0 - 400, 0 - 100, 0 - 43, 0 - 1, 0, 1, 4, 100, 1582,
     1600, 1699, 1700, 1900, 1999, 2000, 2024, 2100, 2200, 2300, 2301, 2399,
     3000}
HourDaySamples == {1, 2, 15, 28, 29, 30, 31}

\* the days of a month of the proleptic Gregorian calendar
DaysInMonth(year, month) ==
    IF month = 2
    THEN IF year % 4 = 0 /\ (year % 100 # 0 \/ year % 400 = 0) THEN 29 ELSE 28
    ELSE IF month \in {4, 6, 9, 11} THEN 30 ELSE 31
HourSamplesOfDay == 0 .. 8 \cup {23}

GetPlanetaryHourRuler(year, month, day, hour) ==
    /\ call = NoCall
    /\ call' = [fn |-> "get_planetary_hour_ruler", year |-> year,
                month |-> month, day |-> day, hour |-> hour]
    /\ ret' = get_planetary_hour_ruler(year, month, day, hour)
    /\ UNCHANGED <<posVars, julVars, houseVars, keplerVars, concVars>>

GetPlanetaryHourRulerCall ==
    /\ call = NoCall
    /\ \E year \in HourYearSamples, month \in 1..12, day \in HourDaySamples,
          hour \in HourSamplesOfDay :
           /\ day <= DaysInMonth(year, month)
           /\ GetPlanetaryHourRuler(year, month, day, hour)

\* AspectType::all(), in its order
AspectTypes ==
    <<"Conjunction", "Sextile", "Square", "Trine", "Opposition", "Quincunx",
      "SemiSextile", "SemiSquare", "Sesquiquadrate", "Quintile">>

\* AspectType::angle
angle(aspect) ==
    CASE aspect = "Conjunction"    -> Whole(0)
      [] aspect = "SemiSextile"    -> Whole(30)
      [] aspect = "SemiSquare"     -> Whole(45)
      [] aspect = "Sextile"        -> Whole(60)
      [] aspect = "Quintile"       -> Whole(72)
      [] aspect = "Square"         -> Whole(90)
      [] aspect = "Trine"          -> Whole(120)
      [] aspect = "Sesquiquadrate" -> Whole(135)
      [] aspect = "Quincunx"       -> Whole(150)
      [] aspect = "Opposition"     -> Whole(180)

\* OrbConfig::default()
DefaultOrbConfig ==
    [conjunction |-> Whole(8), opposition |-> Whole(8), square |-> Whole(8),
     trine |-> Whole(8), sextile |-> Whole(6), quincunx |-> Whole(5),
     semi_sextile |-> Whole(4), semi_square |-> Whole(4),
     sesquiquadrate |-> Whole(4), quintile |-> Whole(4)]

\* OrbConfig::get_orb
get_orb(self, aspect) ==
    CASE aspect = "Conjunction"    -> self.conjunction
      [] aspect = "Opposition"     -> self.opposition
      [] aspect = "Square"         -> self.square
      [] aspect = "Trine"          -> self.trine
      [] aspect = "Sextile"        -> self.sextile
      [] aspect = "Quincunx"       -> self.quincunx
      [] aspect = "SemiSextile"    -> self.semi_sextile
      [] aspect = "SemiSquare"     -> self.semi_square
      [] aspect = "Sesquiquadrate" -> self.sesquiquadrate
      [] aspect = "Quintile"       -> self.quintile

\* Option<f64>
NoOrb == [some |-> FALSE, orb |-> 0]
SomeOrb(x) == [some |-> TRUE, orb |-> x]

\* the separation of two longitudes as check_aspect folds it
folded_diff(lon1, lon2) ==
    LET diff == FAbs(FSub(lon1, lon2))
    IN  IF FGt(diff, D180) THEN FSub(D360, diff) ELSE diff

\* a check_aspect that leaves out an aspect lying exactly at the orb
check_aspect_strictly_inside(lon1, lon2, aspect, orb) ==
    LET actual_orb == FAbs(FSub(folded_diff(lon1, lon2), angle(aspect)))
    IN  IF FLt(actual_orb, orb) THEN SomeOrb(actual_orb) ELSE NoOrb

check_aspect(lon1, lon2, aspect, orb) ==
    LET actual_orb == FAbs(FSub(folded_diff(lon1, lon2), angle(aspect)))
    IN  IF ~FGt(actual_orb, orb) THEN SomeOrb(actual_orb) ELSE NoOrb

\* A slice is the address of its first element and a length; Heap holds the
\* vectors the slices are taken from.  chart1 and chart2 are the same chart
\* when their addresses are equal, whatever they hold.
PlanetPosition(key, lon, speed) ==
    [planet_key |-> key, longitude |-> lon, speed |-> speed]

Heap ==
    <<  <<PlanetPosition("sun", Whole(0), Whole(1)),
          PlanetPosition("moon", Whole(95), Whole(13))>>,
        <<PlanetPosition("sun", Whole(0), Whole(1)),
          PlanetPosition("moon", Whole(95), Whole(13))>>,
        <<PlanetPosition("sun", Whole(300), Whole(1)),
          PlanetPosition("mars", Whole(120) + (Scale \div 2), 0 - (Scale \div 4))>>,
        <<PlanetPosition("venus", Whole(10), Whole(1)),
          PlanetPosition("jupiter", Whole(132), Whole(1)),
          PlanetPosition("saturn", Whole(250), Scale \div 32)>>  >>

Slices == {s \in [addr : 1..Len(Heap), len : 1..3] : s.len <= Len(Heap[s.addr])}
Elements(slice) == SubSeq(Heap[slice.addr], 1, slice.len)

\* the body of the loops with the speed of the first planet alone taken for
\* the relative speed, as between two different charts
aspects_pushed_by_first_speed(c1, c2, same_chart, orb_config, i, j, n) ==
    LET p1 == c1[i]
        p2 == c2[j]
        aspect_type == AspectTypes[n]
        found == check_aspect(p1.longitude, p2.longitude, aspect_type,
                              get_orb(orb_config, aspect_type))
        relative_speed == p1.speed
        diff == folded_diff(p1.longitude, p2.longitude)
    IN  IF same_chart /\ p1.planet_key = p2.planet_key THEN <<>>
        ELSE IF ~found.some THEN <<>>
        ELSE << [planet1_key |-> p1.planet_key, planet2_key |-> p2.planet_key,
                 aspect_type |-> aspect_type, orb |-> found.orb,
                 is_applying |->
                     \/ FGt(diff, angle(aspect_type)) /\ FLt(relative_speed, 0)
                     \/ FLt(diff, angle(aspect_type)) /\ FGt(relative_speed, 0)] >>

\* the body of the three nested loops for p1 = c1[i], p2 = c2[j] and the
\* n-th aspect type: the aspects it pushes
aspects_pushed(c1, c2, same_chart, orb_config, i, j, n) ==
    LET p1 == c1[i]
        p2 == c2[j]
        aspect_type == AspectTypes[n]
        found == check_aspect(p1.longitude, p2.longitude, aspect_type,
                              get_orb(orb_config, aspect_type))
        relative_speed == IF same_chart THEN FSub(p1.speed, p2.speed)
                          ELSE p1.speed
        diff == folded_diff(p1.longitude, p2.longitude)
    IN  IF same_chart /\ p1.planet_key = p2.planet_key THEN <<>>
        ELSE IF ~found.some THEN <<>>
        ELSE << [planet1_key |-> p1.planet_key, planet2_key |-> p2.planet_key,
                 aspect_type |-> aspect_type, orb |-> found.orb,
                 is_applying |->
                     \/ FGt(diff, angle(aspect_type)) /\ FLt(relative_speed, 0)
                     \/ FLt(diff, angle(aspect_type)) /\ FGt(relative_speed, 0)] >>

\* the vector after the first t passes of the innermost loop body
RECURSIVE aspects_after(_, _, _, _, _)
aspects_after(c1, c2, same_chart, orb_config, t) ==
    IF t = 0 THEN <<>>
    ELSE LET i == ((t - 1) \div (10 * Len(c2))) + 1
             j == (((t - 1) \div 10) % Len(c2)) + 1
             n == ((t - 1) % 10) + 1
         IN  aspects_after(c1, c2, same_chart, orb_config, t - 1)
                 \o aspects_pushed(c1, c2, same_chart, orb_config, i, j, n)

compute_aspects_with_orbs(chart1, chart2, orb_config) ==
    aspects_after(Elements(chart1), Elements(chart2),
                  chart1.addr = chart2.addr, orb_config,
                  chart1.len * chart2.len * 10)

OrbSamples == {0, Whole(4), Whole(5), Whole(10)}

\* the default configuration and the ones that differ from it in one orb
OrbConfigSamples ==
    {DefaultOrbConfig}
        \cup {[DefaultOrbConfig EXCEPT !.square = o] : o \in OrbSamples}
        \cup {[DefaultOrbConfig EXCEPT !.quincunx = o] : o \in OrbSamples}
        \cup {[DefaultOrbConfig EXCEPT !.semi_sextile = o] : o \in OrbSamples}
        \cup {[DefaultOrbConfig EXCEPT !.conjunction = o] : o \in OrbSamples}

ComputeAspectsWithOrbs(chart1, chart2, orb_config) ==
    /\ call = NoCall
    /\ call' = [fn |-> "compute_aspects_with_orbs", chart1 |-> chart1,
                chart2 |-> chart2, orb_config |-> orb_config]
    /\ ret' = compute_aspects_with_orbs(chart1, chart2, orb_config)
    /\ UNCHANGED <<posVars, julVars, houseVars, keplerVars, concVars>>

ComputeAspectsWithOrbsCall ==
    /\ call = NoCall
    /\ \E chart1 \in Slices, chart2 \in Slices, orb_config \in OrbConfigSamples :
           ComputeAspectsWithOrbs(chart1, chart2, orb_config)

(***************************************************************************)
(* math.rs: deg_norm called on its own                                     *)
(***************************************************************************)
\* Finite arguments: the whole turns and the values a few rounding steps
\* from them, the values around the threshold of the guard, the angles of
\* the unit test, and large values of both signs.
DegNormSamples ==
    {Rnd(Whole(360) * k + d) :
         k \in (0 - 2) .. 2,
         d \in {0 - (2 * StepBelow360), 0 - StepBelow360, 0 - 1, 0, 1,
                StepBelow360, 2 * StepBelow360}}
        \cup {s * d : s \in {0 - 1, 1},
                      d \in {DegNormEps - 1, DegNormEps, DegNormEps + 1,
                             Scale \div 10, Whole(90), Whole(450),
                             Rnd(2^28 + 12345), 2^30}}

\* the whole numbers of turns added to an argument
TurnSamples == {0 - 2, 0 - 1, 1, 2, 50}

DegNorm(x) ==
    /\ call = NoCall
    /\ call' = [fn |-> "deg_norm", x |-> x]
    /\ ret' = deg_norm(x)
    /\ UNCHANGED <<posVars, julVars, houseVars, keplerVars, concVars>>

DegNormCall ==
    /\ call = NoCall
    /\ \E x \in DegNormSamples : DegNorm(x)

\* the caller takes the value; nothing of the call is kept
HelperReturn ==
    /\ call # NoCall
    /\ call' = NoCall
    /\ ret' = "none"
    /\ UNCHANGED <<posVars, julVars, houseVars, keplerVars, concVars>>

InitHelpers == PosIdle /\ JulIdle /\ HousesIdle /\ RestIdle

NextHelpers ==
    \/ GetMoonPhaseCall
    \/ GetPlanetaryHourRulerCall
    \/ ComputeAspectsWithOrbsCall
    \/ DegNormCall
    \/ HelperReturn

SpecHelpers == InitHelpers /\ [][NextHelpers]_vars

(***************************************************************************)
(* Properties of the helper functions                                      *)
(***************************************************************************)
PhaseCalled == call.fn = "get_moon_phase"

\* the elongation of the Moon from the Sun, exactly, in [0, 360)
Elongation == (call.moon - call.sun) % D360

\* C11, as stated: for longitudes in [0, 360) get_moon_phase returns the
\* phase number floor(elongation / 45) of the eight-phase sequence, the
\* elongation being (moon - sun) mod 360.
C11_PhaseOfExactElongation ==
    PhaseCalled => ret = MoonPhases[(Elongation \div Whole(45)) + 1]

\* C11, amended: the phase is number floor(elongation / 45), except that an
\* elongation less than one rounding step below a multiple of 45 may be
\* rounded up to that multiple and then gives the next phase of the cycle;
\* elongations 0, 90, 180, 270 give NewMoon, FirstQuarter, FullMoon and
\* LastQuarter.
C11_PhaseOfRoundedElongation ==
    PhaseCalled =>
        LET k == Elongation \div Whole(45)
        IN  /\ \/ ret = MoonPhases[k + 1]
               \/ /\ Whole(45) * (k + 1) - Elongation <= StepBelow360
                  /\ ret = MoonPhases[((k + 1) % 8) + 1]
            /\ Elongation % Whole(45) = 0 => ret = MoonPhases[k + 1]
            /\ Elongation % Whole(45) < Whole(45) - StepBelow360
                   => ret = MoonPhases[k + 1]

\* a Moon at 0 and a Sun one rounding step past 90 degrees: the elongation
\* is just below 270 and the call answers LastQuarter
C11_Witness ==
    /\ PhaseCalled
    /\ call.moon = 0
    /\ call.sun = Whole(90) + (StepBelow360 \div 4)
    /\ ret = "LastQuarter"

HourCalled == call.fn = "get_planetary_hour_ruler"

\* The day number of a date of the proleptic Gregorian calendar (the Julian
\* Day Number at noon), and its day of the week, 0 = Sunday.
DayNumber(year, month, day) ==
    LET a == (14 - month) \div 12
        y == year + 4800 - a
        m == month + 12 * a - 3
    IN  day + ((153 * m + 2) \div 5) + 365 * y + (y \div 4) - (y \div 100)
            + (y \div 400) - 32045

Weekday(year, month, day) == (DayNumber(year, month, day) + 1) % 7

\* C12: the ruler at hour 0 is the ruler of the date's weekday, each hour
\* advances one step through the cyclic Chaldean order, and the ruler at hour
\* h + 7 is the ruler at hour h.
C12_HourRulerOfWeekday ==
    HourCalled =>
        LET w     == Weekday(call.year, call.month, call.day)
            start == ChaldeanPosition(DAY_RULERS[w + 1])
        IN  /\ ret = CHALDEAN_ORDER[((start + call.hour) % 7) + 1]
            /\ get_planetary_hour_ruler(call.year, call.month, call.day,
                                        call.hour + 7) = ret

AspectsCalled == call.fn = "compute_aspects_with_orbs"

\* |sep(p1, p2) - angle(A)|, sep being the folded longitude difference
OrbOf(p1, p2, aspect) ==
    FAbs(FSub(folded_diff(p1.longitude, p2.longitude), angle(aspect)))

\* the result holds an aspect of that type between those two positions,
\* with that orb
Reported(result, p1, p2, aspect) ==
    \E n \in 1..Len(result) :
        /\ result[n].planet1_key = p1.planet_key
        /\ result[n].planet2_key = p2.planet_key
        /\ result[n].aspect_type = aspect
        /\ result[n].orb = OrbOf(p1, p2, aspect)

OtherAspects(result, aspect) ==
    SelectSeq(result, LAMBDA a : a.aspect_type # aspect)

WithOrb(orb_config, aspect, o) ==
    CASE aspect = "Conjunction"    -> [orb_config EXCEPT !.conjunction = o]
      [] aspect = "Opposition"     -> [orb_config EXCEPT !.opposition = o]
      [] aspect = "Square"         -> [orb_config EXCEPT !.square = o]
      [] aspect = "Trine"          -> [orb_config EXCEPT !.trine = o]
      [] aspect = "Sextile"        -> [orb_config EXCEPT !.sextile = o]
      [] aspect = "Quincunx"       -> [orb_config EXCEPT !.quincunx = o]
      [] aspect = "SemiSextile"    -> [orb_config EXCEPT !.semi_sextile = o]
      [] aspect = "SemiSquare"     -> [orb_config EXCEPT !.semi_square = o]
      [] aspect = "Sesquiquadrate" -> [orb_config EXCEPT !.sesquiquadrate = o]
      [] aspect = "Quintile"       -> [orb_config EXCEPT !.quintile = o]

\* changing the orb of one aspect type leaves the aspects of every other
\* type as they are
OrbsIndependent ==
    \A n \in 1..10, o \in OrbSamples :
        OtherAspects(compute_aspects_with_orbs(call.chart1, call.chart2,
                         WithOrb(call.orb_config, AspectTypes[n], o)),
                     AspectTypes[n])
            = OtherAspects(ret, AspectTypes[n])

DegNormCalled == call.fn = "deg_norm"

\* the distance of two angles around the circle, exactly
CircleDistance(a, b) ==
    LET d == (a - b) % D360
    IN  IF d > D180 THEN D360 - d ELSE d

\* x + 360 k as the caller computes it, and the error of that sum
Shifted(x, k) == FAdd(x, Whole(360) * k)
ShiftError(x, k) == Abs(Shifted(x, k) - (x + Whole(360) * k))

\* C14, as stated: for finite x, deg_norm(x) is in [0, 360) and congruent
\* to x modulo 360; deg_norm is idempotent, and deg_norm(x + 360 k) equals
\* deg_norm(x) for whole k.
C14_NormalizedExactly ==
    DegNormCalled =>
        /\ 0 <= ret /\ ret < D360
        /\ (ret - call.x) % D360 = 0
        /\ deg_norm(ret) = ret
        /\ \A k \in TurnSamples : deg_norm(Shifted(call.x, k)) = ret

\* C14, amended: deg_norm(x) is in [0, 360) and congruent to x modulo 360
\* to within the guard's threshold (exactly for whole multiples of 90);
\* applying deg_norm again returns the same value, or 0 when the value is
\* below the threshold; deg_norm(x + 360 k) is within twice the threshold
\* plus the rounding error of the sum of deg_norm(x).
C14_NormalizedWithinThreshold ==
    DegNormCalled =>
        /\ 0 <= ret /\ ret < D360
        /\ CircleDistance(ret, call.x) < DegNormEps
        /\ call.x % Whole(90) = 0 => (ret - call.x) % D360 = 0
        /\ \/ deg_norm(ret) = ret
           \/ ret < DegNormEps /\ deg_norm(ret) = 0
        /\ \A k \in TurnSamples :
               CircleDistance(deg_norm(Shifted(call.x, k)), ret)
                   < 2 * DegNormEps + ShiftError(call.x, k)

\* the argument one rounding step above -360: the result is that one step,
\* which a second application turns into 0
C14_Witness ==
    /\ DegNormCalled
    /\ call.x = StepBelow360 - D360
    /\ ret = StepBelow360
    /\ deg_norm(ret) = 0

(***************************************************************************)
(* planets.rs: solve_kepler.  Here the sine and the cosine are evaluated:  *)
(* the argument is reduced by whole turns and the function is computed     *)
(* from its power series on [0, pi/4], to within about one unit.  The two  *)
(* tolerances keep the ratio they have in the code, 1e-12 to 1e-10, and    *)
(* lie a few units above the resolution of an anomaly in [0, 2 pi), as     *)
(* they lie above the resolution of binary64 there.                        *)
(***************************************************************************)
\* a / b for two values, b # 0, rounded once
FDiv(a, b) ==
    IF a = NaN \/ b = NaN THEN NaN
    ELSE LET n  == Abs(a) * Scale
             d  == Abs(b)
             q  == n \div d
             r  == n % d
             fr == IF r = 0 THEN 0
                   ELSE IF 2 * r < d THEN 1
                   ELSE IF 2 * r = d THEN 2 ELSE 3
             v  == RoundMag(q, fr)
         IN  IF (a < 0) # (b < 0) THEN 0 - v ELSE v

\* n / d rounded to the nearest whole number, n >= 0
Nearest(n, d) == (2 * n + d) \div (2 * d)

HALFPI == PI \div 2

\* sin and cos of x in [0, pi/4]
SinSeries(x) ==
    LET x2 == Nearest(x * x, Scale)
        t3 == Scale - Nearest(x2, 42)
        t2 == Scale - Nearest(x2 * t3, 20 * Scale)
        t1 == Scale - Nearest(x2 * t2, 6 * Scale)
    IN  Nearest(x * t1, Scale)

CosSeries(x) ==
    LET x2 == Nearest(x * x, Scale)
        t4 == Scale - Nearest(x2, 56)
        t3 == Scale - Nearest(x2 * t4, 30 * Scale)
        t2 == Scale - Nearest(x2 * t3, 12 * Scale)
    IN  Scale - Nearest(x2 * t2, 2 * Scale)

\* sin of x in [0, pi]
SinHalfTurn(x) ==
    LET r == IF x > HALFPI THEN PI - x ELSE x
    IN  IF 2 * r <= HALFPI THEN SinSeries(r) ELSE CosSeries(HALFPI - r)

\* f64::sin and f64::cos
Sin(x) ==
    IF x = NaN THEN NaN
    ELSE LET r == x % TWOPI
         IN  IF r < PI THEN SinHalfTurn(r) ELSE 0 - SinHalfTurn(r - PI)

Cos(x) == IF x = NaN THEN NaN ELSE Sin(x + HALFPI)

\* 1e-12, the correction below which the loop stops
KeplerEps == Scale \div 2048
\* the number of passes of `for _ in 0..10`
KeplerPasses == 10

\* a correction that leaves the sine term out of the residual
kepler_delta_without_sine(ea, m, e) ==
    FDiv(FSub(ea, m), FSub(Scale, FMul(e, Cos(ea))))

\* delta of one pass of the loop
kepler_delta(ea, m, e) ==
    FDiv(FSub(FSub(ea, FMul(e, Sin(ea))), m),
         FSub(Scale, FMul(e, Cos(ea))))

\* a pass that stops as soon as the correction is small, before applying it
kepler_pass_stopping_early(ea, m, e) ==
    LET delta == kepler_delta(ea, m, e)
    IN  [delta |-> delta,
         ea |-> IF FLt(FAbs(delta), KeplerEps) THEN ea ELSE FSub(ea, delta),
         break |-> FLt(FAbs(delta), KeplerEps)]

\* one pass: the new ea, its delta, and whether the loop breaks
kepler_pass(ea, m, e) ==
    LET delta == kepler_delta(ea, m, e)
    IN  [delta |-> delta, ea |-> FSub(ea, delta),
         break |-> FLt(FAbs(delta), KeplerEps)]

\* Mean anomalies: a grid over [0, 2 pi), its mirror image, and values so
\* large that they are many units apart.  Eccentricities below 0.25: the
\* circle, the Earth, Mercury (0.2056), Pluto (0.2488) and the largest.
AnomalySamples ==
    {(k * Scale) \div 4 : k \in 0..25} \cup {0 - Scale, 0 - 3 * Scale}
        \cup {TWOPI - 1, Whole(100) + 7, Rnd(2^24 + 3333), Rnd(2^27 + 77777),
              2^29, 2^30, 0 - 2^30}

EccentricitySamples ==
    {0, Scale \div 60, Scale \div 10, (2056 * Scale) \div 10000,
     (2488 * Scale) \div 10000, (Scale \div 4) - 1}

SolveKepler(m, e) ==
    /\ kpc = "idle"
    /\ kreq' = [m |-> m, e |-> e]
    /\ kea' = m
    /\ ki' = 0
    /\ kdelta' = 0
    /\ kpc' = "loop"
    /\ UNCHANGED <<posVars, julVars, houseVars, helperVars, concVars>>

SolveKeplerCall ==
    /\ kpc = "idle"
    /\ \E m \in AnomalySamples, e \in EccentricitySamples : SolveKepler(m, e)

\* a pass of the loop whose correction is not below the threshold
KeplerContinue ==
    /\ kpc = "loop"
    /\ ki < KeplerPasses
    /\ LET pass == kepler_pass(kea, kreq.m, kreq.e)
       IN  /\ ~pass.break
           /\ kea' = pass.ea
           /\ kdelta' = pass.delta
    /\ ki' = ki + 1
    /\ UNCHANGED <<kreq, kpc, posVars, julVars, houseVars, helperVars, concVars>>

\* a pass whose correction is below the threshold: ea is updated, then break
KeplerBreak ==
    /\ kpc = "loop"
    /\ ki < KeplerPasses
    /\ LET pass == kepler_pass(kea, kreq.m, kreq.e)
       IN  /\ pass.break
           /\ kea' = pass.ea
           /\ kdelta' = pass.delta
    /\ ki' = ki + 1
    /\ kpc' = "done"
    /\ UNCHANGED <<kreq, posVars, julVars, houseVars, helperVars, concVars>>

\* the range 0..10 is used up: the function returns ea as it is
KeplerExhausted ==
    /\ kpc = "loop"
    /\ ki = KeplerPasses
    /\ kpc' = "done"
    /\ UNCHANGED <<kreq, kea, ki, kdelta, posVars, julVars, houseVars,
                   helperVars, concVars>>

KeplerReturn ==
    /\ kpc = "done"
    /\ kreq' = NoKeplerRequest
    /\ kpc' = "idle"
    /\ kea' = 0 /\ ki' = 0 /\ kdelta' = 0
    /\ UNCHANGED <<posVars, julVars, houseVars, helperVars, concVars>>

InitKepler == PosIdle /\ JulIdle /\ HousesIdle /\ RestIdle

NextKepler ==
    \/ SolveKeplerCall
    \/ KeplerContinue
    \/ KeplerBreak
    \/ KeplerExhausted
    \/ KeplerReturn

SpecKepler == InitKepler /\ [][NextKepler]_vars

(***************************************************************************)
(* Properties of solve_kepler                                              *)
(***************************************************************************)
\* 1e-10, a hundred times the threshold of the loop
KeplerTol == 100 * KeplerEps

KeplerDone == kpc = "done"

\* |E - e sin(E) - M| in units of 1 / Scale of a unit, exactly
Residual == Abs((kea - kreq.m) * Scale - kreq.e * Sin(kea))

\* C15, as stated: for every mean anomaly M and every eccentricity
\* 0 <= e < 0.25 the returned E satisfies |E - e sin(E) - M| < 1e-10.
C15_ResidualForEveryAnomaly ==
    KeplerDone => Residual < KeplerTol * Scale

\* C15, amended: the same for the mean anomalies in [0, 2 pi), the ones
\* calc_planet_kepler passes.
C15_ResidualForReducedAnomaly ==
    (KeplerDone /\ 0 <= kreq.m /\ kreq.m < TWOPI)
        => Residual < KeplerTol * Scale

\* M = 1 radian with Pluto's eccentricity: the initial guess E = M is off by
\* more than the tolerance, and the loop has brought the residual below it
C15_Witness ==
    /\ KeplerDone
    /\ kreq.m = Scale
    /\ kreq.e = (2488 * Scale) \div 10000
    /\ Abs(kreq.e * Sin(kreq.m)) >= KeplerTol * Scale
    /\ ki >= 2
    /\ Residual < KeplerTol * Scale

SmallCorrection == FLt(FAbs(kdelta), KeplerEps)

\* C17: solve_kepler starts from E = M, makes at most 10 updates, applies
\* every correction it computes, stops right after the first correction
\* below 1e-12, and returns a value after 10 updates even when no
\* correction was that small.
C17_AtMostTenUpdates ==
    /\ [](kpc \in {"loop", "done"} =>
            /\ ki \in 0..KeplerPasses
            /\ ki = 0 => kea = kreq.m /\ kpc = "loop"
            /\ (kpc = "loop" /\ ki > 0) => ~SmallCorrection
            /\ kpc = "done" =>
                   /\ SmallCorrection \/ ki = KeplerPasses
                   /\ kea \in Int)
    /\ [][(kpc = "loop" /\ kpc' # "idle") =>
            \/ /\ ki < KeplerPasses
               /\ ki' = ki + 1
               /\ kdelta' = kepler_delta(kea, kreq.m, kreq.e)
               /\ kea' = FSub(kea, kdelta')
               /\ kpc' = "done" <=> FLt(FAbs(kdelta'), KeplerEps)
            \/ /\ ki = KeplerPasses
               /\ kpc' = "done"
               /\ UNCHANGED <<kea, ki, kdelta>>]_vars

\* ten updates made, the last correction still not below the threshold, and
\* the value returned
C17_Witness ==
    /\ KeplerDone
    /\ ki = KeplerPasses
    /\ ~SmallCorrection
    /\ kea \in Int

(***************************************************************************)
(* Properties of the Placidus solver placidus_cusp_deg                     *)
(***************************************************************************)
\* the cusp the solver has just returned for the entry it was solving
ReturnedCusp == hcusps'[cusp_params[hidx].num]
ReturnedHow == hexit'[hidx]

CloseToPrevious(c) == CircleDistance(c, hprev) < CONVERGENCE

\* C18: for each intermediate cusp the solver makes at most MAX_ITER passes
\* and returns a cusp in exactly one of three ways - two successive
\* estimates closer than the convergence threshold along the shorter arc, a
\* degenerate fallback, or the last estimate once the passes are used up -
\* and calc_houses never returns an error.
C18_SolverReturnsWithinHundredPasses ==
    /\ [](hpc = "iter" => hiter \in 0..(MAX_ITER - 1))
    /\ [](\A k \in 1..4 :
            /\ hexit[k] \in {"none", "converged", "equator", "circumpolar",
                             "exhausted"}
            /\ (hpc \in {"finish", "done"} \/ k < hidx) => hexit[k] # "none")
    /\ [](hpc = "done" => hres.tag = "Ok")
    /\ [][hpc = "iter" =>
            \/ /\ hpc' = "iter"
               /\ hiter' = hiter + 1
               /\ hidx' = hidx /\ hexit' = hexit /\ hcusps' = hcusps
               /\ hprev' = hcusp'
               /\ hiter > 0 => ~CloseToPrevious(hcusp')
            \/ /\ hpc' \in {"seed", "finish"}
               /\ \/ /\ ReturnedHow = "converged"
                     /\ hiter > 0
                     /\ CloseToPrevious(ReturnedCusp)
                  \/ /\ ReturnedHow \in {"equator", "circumpolar"}
                     /\ ReturnedCusp = hrect
                  \/ /\ ReturnedHow = "exhausted"
                     /\ hiter = MAX_ITER - 1
                     /\ ~CloseToPrevious(ReturnedCusp)]_vars

\* a chart whose solver used up its passes for one cusp and still returned
C18_Witness ==
    /\ hpc = "done"
    /\ hres.tag = "Ok"
    /\ \E k \in 1..4 : hexit[k] = "exhausted"
    /\ \E k \in 1..4 : hexit[k] = "converged"

\* the right-ascension offset of each intermediate cusp
RaOffset(num) ==
    CASE num = 11 -> Whole(30)
      [] num = 12 -> Whole(60)
      [] num = 2  -> Whole(120)
      [] num = 3  -> Whole(150)

RawRightAscension(num) == deg_norm(FAdd(harmc, RaOffset(num)))

Degenerate(tan_decl) == Abs(tan_decl) < VERY_SMALL \/ Circumpolar(tan_decl)

\* C19: at any pass for cusp 11, 12, 2 or 3, a declination tangent below
\* VERY_SMALL or |tan(lat) tan(decl)| > 1 ends the iteration at once with the
\* cusp set to deg_norm(ARMC + 30), deg_norm(ARMC + 60), deg_norm(ARMC + 120)
\* or deg_norm(ARMC + 150), whatever the estimates before; and no pass that
\* could only meet such a tangent goes on.
C19_FallbackIsRawRightAscension ==
    /\ [](\A k \in 1..4 :
            hexit[k] \in {"equator", "circumpolar"} =>
                hcusps[cusp_params[k].num]
                    = RawRightAscension(cusp_params[k].num))
    /\ [][hpc = "iter" =>
            \E tan_decl \in TanDecl(hcusp) :
                IF Degenerate(tan_decl)
                THEN /\ hpc' \in {"seed", "finish"}
                     /\ ReturnedHow \in {"equator", "circumpolar"}
                     /\ ReturnedCusp = RawRightAscension(cusp_params[hidx].num)
                ELSE (hpc' = "iter" \/ ReturnedHow \in {"converged", "exhausted"})
         ]_vars

\* a chart with a circumpolar cusp met after at least one estimate, and a
\* cusp on the equator
C19_Witness ==
    /\ hpc = "done"
    /\ \E k \in 1..4 :
           /\ hexit[k] = "circumpolar"
           /\ hcusps[cusp_params[k].num] = RawRightAscension(cusp_params[k].num)

(***************************************************************************)
(* lib.rs: several callers at once.  Each caller runs one call of calc_ut  *)
(* or calc_houses at a time, one step at a time, on the locals of that     *)
(* call: the arguments, the stack of position evaluations in progress      *)
(* (calc_moon, calc_true_node and calc_planet_kepler call themselves for   *)
(* the speed), and the values computed so far.  The steps of different     *)
(* callers interleave freely.  What the series and the library functions   *)
(* evaluate to is a fixed function of their arguments, world.              *)
(***************************************************************************)
Callers == 1..2
Worlds == 1..2

LonSeq == <<0 - Whole(725), 0 - 1, 0, D360 - StepBelow360, Whole(1085)>>
CorrSeq == <<0 - Whole(2), 0 - 1, (3 * Scale) \div 2>>
AtanSeq == <<0 - PI, 0 - 1, 0, PI>>

\* the series of a body at an instant, in world w
WorldSeries(w, planet, jd) ==
    IF Overflows(jd)
    THEN [lon |-> NaN, corr |-> NaN, lat |-> NaN, dist |-> NaN]
    ELSE IF planet \in KeplerPlanets
    THEN [lon |-> AtanSeq[((jd + w) % 4) + 1], corr |-> 0,
          lat |-> 0 - Whole(5), dist |-> Whole(1)]
    ELSE [lon |-> LonSeq[((jd + w) % 5) + 1],
          corr |-> CorrSeq[(((jd \div 10) + w) % 3) + 1],
          lat |-> 0 - Whole(5), dist |-> Whole(1)]

\* dt of the speed computation, in hundredths of a day
speed_step_of_the_node(planet) == 10

speed_step(planet) == IF planet \in {"Sun", "Moon"} THEN 1 ELSE 10

\* the calc_speed argument of the call a body makes to itself
self_call_speed_kept == TRUE

self_call_speed == FALSE

\* the position function of a body, given the series of its own evaluation
\* and of the evaluation at the offset instant
body_position(planet, jd, calc_speed, o) ==
    CASE planet = "Moon" -> calc_moon(jd, 1, calc_speed, o)
      [] planet = "TrueNode" -> calc_true_node(jd, 1, calc_speed, o)
      [] planet = "Sun" -> calc_sun(jd, calc_speed, o)
      [] OTHER -> calc_planet_kepler(jd, 1, calc_speed, o)

\* the cusp placidus_cusp_deg returns is a function of its arguments
solved_cusp(w, rectasc, lat) ==
    IF lat < 0 THEN rectasc ELSE deg_norm(FAdd(rectasc, Whole(7 * w)))

intermediate_cusps(w, cusps, armc_deg, lat) ==
    [n \in 0..12 |->
        IF \E k \in 1..4 : cusp_params[k].num = n
        THEN LET k == CHOOSE k \in 1..4 : cusp_params[k].num = n
             IN  solved_cusp(w, deg_norm(FAdd(armc_deg,
                                              Whole(cusp_params[k].offset))), lat)
        ELSE cusps[n]]

Frame(jd, speed) == [jd |-> jd, speed |-> speed, s |-> NoSeries, s2 |-> NoSeries]
NoLocals == [armc |-> 0, mc |-> 0, asc |-> 0, cusps |-> NoCusps]
NoCallerRequest ==
    [fn |-> "none", jd_ut |-> 0, planet |-> "Sun", speed |-> FALSE,
     lat |-> 0, lon |-> 0]
IdleCaller ==
    [pc |-> "idle", req |-> NoCallerRequest, stack |-> <<>>, evals |-> <<>>,
     loc |-> NoLocals, result |-> IdleResult]

CallerJdSamples == {0, J2000, MOSHIER_END - 10, MOSHIER_END, JdHuge}
CallerPlanets == {"Sun", "Moon", "TrueNode", "Mars"}

\* calc_ut is called: jd_et, then the match on the planet
CallCalcUt(p, jd_ut, planet, speed) ==
    /\ proc[p].pc = "idle"
    /\ proc' = [proc EXCEPT ![p] =
                   [IdleCaller EXCEPT
                       !.pc = "dispatch",
                       !.req = [NoCallerRequest EXCEPT
                                   !.fn = "calc_ut", !.jd_ut = jd_ut,
                                   !.planet = planet, !.speed = speed]]]
    /\ UNCHANGED <<world, posVars, julVars, houseVars, helperVars, keplerVars>>

\* a range check that looks at the last instant the request evaluates
checked_instant_with_offset(jd_et, planet, calc_speed) ==
    IF calc_speed THEN JdAdd(jd_et, speed_step(planet)) ELSE jd_et

\* the instant calc_planet compares with MOSHIER_START and MOSHIER_END
checked_instant(jd_et, planet, calc_speed) == jd_et

\* calc_planet rejects an instant out of range; calc_moon and calc_true_node
\* are entered whatever the instant
Dispatch(p) ==
    /\ proc[p].pc = "dispatch"
    /\ LET r     == proc[p].req
           jd_et == JdAdd(r.jd_ut, delta_t(r.jd_ut))
       IN  proc' = [proc EXCEPT ![p] =
               IF /\ r.planet \notin {"Moon", "TrueNode"}
                  /\ LET jd == checked_instant(jd_et, r.planet, r.speed)
                     IN  jd < MOSHIER_START \/ jd > MOSHIER_END
               THEN [@ EXCEPT !.pc = "done", !.result = Err("OutOfRange", 0)]
               ELSE [@ EXCEPT !.pc = "eval",
                              !.stack = <<Frame(jd_et, r.speed)>>]]
    /\ UNCHANGED <<world, posVars, julVars, houseVars, helperVars, keplerVars>>

\* the body function on top of the stack evaluates its series; with
\* calc_speed it then calls itself at the offset instant (the Sun evaluates
\* the offset series in line)
Evaluate(p) ==
    /\ proc[p].pc = "eval"
    /\ LET r     == proc[p].req
           depth == Len(proc[p].stack)
           f     == proc[p].stack[depth]
           s     == WorldSeries(world, r.planet, f.jd)
           jd2   == JdAdd(f.jd, speed_step(r.planet))
           here  == [jd |-> f.jd, speed |-> f.speed, depth |-> depth - 1]
           there == [jd |-> jd2, speed |-> FALSE, depth |-> depth - 1]
       IN  proc' = [proc EXCEPT ![p] =
               IF ~f.speed
               THEN [@ EXCEPT !.pc = "return",
                              !.stack[depth].s = s,
                              !.evals = Append(@, here)]
               ELSE IF r.planet = "Sun"
               THEN [@ EXCEPT !.pc = "return",
                              !.stack[depth].s = s,
                              !.stack[depth].s2 = WorldSeries(world, r.planet, jd2),
                              !.evals = @ \o <<here, there>>]
               ELSE [@ EXCEPT !.stack = [@ EXCEPT ![depth].s = s]
                                            \o <<Frame(jd2, self_call_speed)>>,
                              !.evals = Append(@, here)]]
    /\ UNCHANGED <<world, posVars, julVars, houseVars, helperVars, keplerVars>>

\* the evaluation on top of the stack returns to the evaluation that called
\* it, or to calc_ut
Return(p) ==
    /\ proc[p].pc = "return"
    /\ LET r     == proc[p].req
           depth == Len(proc[p].stack)
           f     == proc[p].stack[depth]
       IN  proc' = [proc EXCEPT ![p] =
               IF depth > 1
               THEN [@ EXCEPT !.stack = [SubSeq(@, 1, depth - 1)
                                            EXCEPT ![depth - 1].s2 = f.s]]
               ELSE [@ EXCEPT !.pc = "done",
                              !.stack = <<>>,
                              !.result = body_position(r.planet, f.jd, f.speed,
                                                       <<f.s, f.s2>>)]]
    /\ UNCHANGED <<world, posVars, julVars, houseVars, helperVars, keplerVars>>

\* calc_houses is called: ARMC, MC and ascendant
CallCalcHouses(p, jd_ut, lat, lon) ==
    /\ proc[p].pc = "idle"
    /\ LET armc_deg == armc(GmstRaw(jd_ut), lon)
           mc  == calc_mc(CHOOSE at \in McAtan(armc_deg) : TRUE)
           asc == calc_ascendant(CHOOSE at \in AscAtan(armc_deg) : TRUE)
       IN  proc' = [proc EXCEPT ![p] =
               [IdleCaller EXCEPT
                   !.pc = "cusps",
                   !.req = [NoCallerRequest EXCEPT
                               !.fn = "calc_houses", !.jd_ut = jd_ut,
                               !.lat = lat, !.lon = lon],
                   !.loc = [armc |-> armc_deg, mc |-> mc, asc |-> asc,
                            cusps |-> NoCusps]]]
    /\ UNCHANGED <<world, posVars, julVars, houseVars, helperVars, keplerVars>>

\* calc_placidus_cusps
Cusps(p) ==
    /\ proc[p].pc = "cusps"
    /\ LET l == proc[p].loc
       IN  proc' = [proc EXCEPT ![p] =
               [@ EXCEPT !.pc = "vertex",
                         !.loc.cusps =
                             opposite_cusps(intermediate_cusps(world,
                                 angular_cusps(l.mc, l.asc), l.armc,
                                 proc[p].req.lat))]]
    /\ UNCHANGED <<world, posVars, julVars, houseVars, helperVars, keplerVars>>

\* calc_vertex and the Houses value
Vertex(p) ==
    /\ proc[p].pc = "vertex"
    /\ LET l == proc[p].loc
           vertex == calc_vertex(IF world = 1 THEN 0 - PI ELSE (5 * Scale) \div 4)
       IN  proc' = [proc EXCEPT ![p] =
               [@ EXCEPT !.pc = "done",
                         !.result = [tag |-> "Houses", arg |-> 0,
                                     pos |-> houses_result(l.cusps, l.asc, l.mc,
                                                           l.armc, vertex)]]]
    /\ UNCHANGED <<world, posVars, julVars, houseVars, helperVars, keplerVars>>

\* the caller takes the result; the call leaves nothing behind
TakeResult(p) ==
    /\ proc[p].pc = "done"
    /\ proc' = [proc EXCEPT ![p] = IdleCaller]
    /\ UNCHANGED <<world, posVars, julVars, houseVars, helperVars, keplerVars>>

CallCalcUtSome ==
    \E p \in Callers :
        /\ proc[p].pc = "idle"
        /\ \E jd_ut \in CallerJdSamples, planet \in CallerPlanets,
              speed \in BOOLEAN : CallCalcUt(p, jd_ut, planet, speed)

CallCalcHousesSome ==
    \E p \in Callers :
        /\ proc[p].pc = "idle"
        /\ \E in \in HouseSamples : CallCalcHouses(p, in[1], in[2], in[3])

DispatchSome == \E p \in Callers : Dispatch(p)
EvaluateSome == \E p \in Callers : Evaluate(p)
ReturnSome == \E p \in Callers : Return(p)
CuspsSome == \E p \in Callers : Cusps(p)
VertexSome == \E p \in Callers : Vertex(p)
TakeResultSome == \E p \in Callers : TakeResult(p)

InitCallers ==
    /\ PosIdle /\ JulIdle /\ HousesIdle /\ HelperIdle /\ KeplerIdle
    /\ world \in Worlds
    /\ proc = [p \in Callers |-> IdleCaller]

NextCallers ==
    \/ CallCalcUtSome
    \/ CallCalcHousesSome
    \/ DispatchSome
    \/ EvaluateSome
    \/ ReturnSome
    \/ CuspsSome
    \/ VertexSome
    \/ TakeResultSome

SpecCallers == InitCallers /\ [][NextCallers]_vars

\* the steps of a call in progress
RunCall(p) == Dispatch(p) \/ Evaluate(p) \/ Return(p) \/ Cusps(p) \/ Vertex(p)

\* a call in progress always has a next step: each step is guarded by the
\* position of the call alone, and moves it
InCall(p) == proc[p].pc \in {"dispatch", "eval", "return", "cusps", "vertex"}

\* a caller running a call keeps being scheduled until the call returns:
\* WF_vars(RunCall(p)), with ENABLED <<RunCall(p)>>_vars written as InCall(p)
Scheduled(p) == []<>(~InCall(p)) \/ []<><<RunCall(p)>>_vars

SpecCallersFair == SpecCallers /\ \A p \in Callers : Scheduled(p)

(***************************************************************************)
(* Properties of concurrent calls                                          *)
(***************************************************************************)
CallerDone(p) == proc[p].pc = "done"

OffsetInstant(planet, jd) ==
    JdAdd(jd, IF planet \in {"Sun", "Moon"} THEN 1 ELSE 10)

\* what the call returns when it runs alone, from entry to return
AloneCalcUt(r) ==
    LET jd_et == JdAdd(r.jd_ut, delta_t(r.jd_ut))
    IN  calc_ut(r.jd_ut, r.planet, r.speed,
                <<WorldSeries(world, r.planet, jd_et),
                  WorldSeries(world, r.planet, OffsetInstant(r.planet, jd_et))>>)

AloneCalcHouses(r) ==
    LET armc_deg == armc(GmstRaw(r.jd_ut), r.lon)
        mc     == calc_mc(CHOOSE at \in McAtan(armc_deg) : TRUE)
        asc    == calc_ascendant(CHOOSE at \in AscAtan(armc_deg) : TRUE)
        cusps  == opposite_cusps(intermediate_cusps(world,
                      angular_cusps(mc, asc), armc_deg, r.lat))
        vertex == calc_vertex(IF world = 1 THEN 0 - PI ELSE (5 * Scale) \div 4)
    IN  [tag |-> "Houses", arg |-> 0,
         pos |-> houses_result(cusps, asc, mc, armc_deg, vertex)]

Alone(r) == IF r.fn = "calc_ut" THEN AloneCalcUt(r) ELSE AloneCalcHouses(r)

ReturnsWhatItReturnsAlone ==
    \A p \in Callers : CallerDone(p) => proc[p].result = Alone(proc[p].req)

SameInputsSameResult ==
    \A p, q \in Callers :
        CallerDone(p) /\ CallerDone(q) /\ proc[p].req = proc[q].req
            => proc[p].result = proc[q].result

StepTouchesOneCaller ==
    /\ world' = world
    /\ \A p, q \in Callers : p # q /\ proc'[p] # proc[p] => proc'[q] = proc[q]

SelfCalling == {"Moon", "TrueNode"} \cup KeplerPlanets
Running(p) == InCall(p) /\ proc[p].req.fn = "calc_ut"
SelfCallDepth(p) == Len(proc[p].stack) - 1

DepthBounded ==
    \A p \in Callers :
        Len(proc[p].stack) > 0 =>
            /\ SelfCallDepth(p) <= (IF proc[p].req.speed THEN 1 ELSE 0)
            /\ SelfCallDepth(p) = 1 =>
                  /\ proc[p].req.planet \in SelfCalling
                  /\ ~proc[p].stack[2].speed
                  /\ proc[p].stack[2].jd =
                        OffsetInstant(proc[p].req.planet, proc[p].stack[1].jd)

EvaluationsOfARequest ==
    \A p \in Callers :
        CallerDone(p) /\ proc[p].req.fn = "calc_ut" =>
            LET r     == proc[p].req
                jd_et == JdAdd(r.jd_ut, delta_t(r.jd_ut))
                ev    == proc[p].evals
            IN  IF proc[p].result.tag = "OutOfRange"
                THEN ev = <<>>
                ELSE /\ Len(ev) = (IF r.speed THEN 2 ELSE 1)
                     /\ ev[1] = [jd |-> jd_et, speed |-> r.speed, depth |-> 0]
                     /\ r.speed =>
                           ev[2] = [jd |-> OffsetInstant(r.planet, jd_et),
                                    speed |-> FALSE,
                                    depth |-> IF r.planet \in SelfCalling
                                              THEN 1 ELSE 0]

\* C20: a request with speed evaluates the position once more, at the offset
\* instant and without speed; the Moon, the true node and the Kepler planets
\* call themselves to depth 1 with speed and 0 without, and every request
\* returns
C20_OneExtraEvaluation ==
    /\ [](DepthBounded /\ EvaluationsOfARequest)
    /\ \A p \in Callers : Running(p) ~> CallerDone(p)

\* the true node is inside its self-call at the offset instant
C20_Witness ==
    /\ proc[1].req.planet = "TrueNode" /\ proc[1].req.speed
    /\ proc[1].pc = "return" /\ SelfCallDepth(1) = 1
    /\ Len(proc[1].evals) = 2
    /\ proc[1].evals[2].jd = JdAdd(proc[1].evals[1].jd, 10)

(***************************************************************************)
(* Properties of the speed of a position                                   *)
(***************************************************************************)
\* the longitude the series o[k] give for the body of the request
LonOfSeries(k) ==
    IF req.planet \in KeplerPlanets
    THEN deg_norm(FMul(ser[k].lon, RAD_TO_DEG))
    ELSE SeriesLon(k)

\* 1 / dt of the body of the request
PerDay == IF req.planet \in {"Sun", "Moon"} THEN 100 ELSE 10

SpeedReturned == Called /\ req.speed /\ res.tag = "Ok"

\* C21: speed_longitude is the signed shortest angular difference from the
\* longitude at t to the longitude at t + dt, in (-180, 180] and equal to
\* the plain difference up to a whole turn and the rounding of the
\* subtraction, divided by dt; a longitude that advances across 360 -> 0
\* gives a positive speed, one that goes back across 0 -> 360 a negative
\* speed, and the speed never exceeds 180 / dt in size.
C21_SpeedIsShortestDifference ==
    SpeedReturned =>
        LET lon  == LonOfSeries(1)
            lon2 == LonOfSeries(2)
            d    == angle_diff(lon2, lon)
        IN  /\ res.pos.longitude = lon
            /\ res.pos.speed_longitude = FMulInt(d, PerDay)
            /\ d # NaN =>
                  /\ d > 0 - D180 /\ d <= D180
                  /\ \E turn \in {0 - D360, 0, D360} :
                         Abs(d - (lon2 - lon) - turn) <= StepBelow360
                  /\ lon2 - lon < 0 - D180 => res.pos.speed_longitude > 0
                  /\ lon2 - lon > D180 + StepBelow360
                         => res.pos.speed_longitude < 0
                  /\ Abs(res.pos.speed_longitude) <= Whole(180) * PerDay

\* the Moon advances across 360 -> 0 and gets a small positive speed
C21_Witness ==
    /\ SpeedReturned /\ req.planet = "Moon"
    /\ LonOfSeries(1) > Whole(350) /\ LonOfSeries(1) # NaN
    /\ LonOfSeries(2) < Whole(10) /\ LonOfSeries(2) # NaN
    /\ res.pos.speed_longitude > 0
    /\ res.pos.speed_longitude < Whole(20) * 100

(***************************************************************************)
(* Properties of the MC                                                    *)
(***************************************************************************)
\* C22: in every result of calc_houses the MC lies in the same half of the
\* circle as the ARMC: armc < 180 exactly when mc < 180.
C22_McInHalfOfArmc ==
    HousesDone =>
        (FLt(hres.houses.armc, D180) <=> FLt(hres.houses.mc, D180))

(***************************************************************************)
(* Properties of the range check                                           *)
(***************************************************************************)
RangeChecked(p) ==
    /\ CallerDone(p) /\ proc[p].req.fn = "calc_ut"
    /\ proc[p].req.planet \notin {"Moon", "TrueNode"}

EtOf(p) == JdAdd(proc[p].req.jd_ut, delta_t(proc[p].req.jd_ut))

\* C23: the range is validated for the requested instant only: calc_planet
\* returns Ok for every jd_et in range, also with speed when the offset
\* instant jd_et + dt lies beyond the upper bound; the evaluation at the
\* offset instant is then made all the same.
C23_OnlyTheRequestedInstantIsChecked ==
    \A p \in Callers :
        RangeChecked(p) =>
            /\ proc[p].result.tag = (IF InRange(EtOf(p)) THEN "Ok" ELSE "OutOfRange")
            /\ (InRange(EtOf(p)) /\ proc[p].req.speed) =>
                  /\ Len(proc[p].evals) = 2
                  /\ proc[p].evals[2].jd =
                        OffsetInstant(proc[p].req.planet, EtOf(p))

\* a Kepler planet asked with speed less than 0.1 day before the upper bound
C23_Witness ==
    /\ RangeChecked(1) /\ proc[1].req.planet = "Mars" /\ proc[1].req.speed
    /\ EtOf(1) <= MOSHIER_END /\ EtOf(1) > MOSHIER_END - 10
    /\ proc[1].evals[2].jd > MOSHIER_END
    /\ proc[1].result.tag = "Ok"
    /\ proc[1].result.pos.speed_longitude # 0

\* C24: speed_latitude and speed_distance are 0 in every position returned,
\* for every body, with and without a speed request: only speed_longitude
\* is computed.
C24_OnlyLongitudeHasSpeed ==
    (Called /\ res.tag = "Ok") =>
        /\ res.pos.speed_latitude = 0
        /\ res.pos.speed_distance = 0

\* the Moon, off the ecliptic and moving, asked with speed
C24_Witness ==
    /\ SpeedReturned /\ req.planet = "Moon"
    /\ res.pos.latitude # 0 /\ res.pos.distance # 0
    /\ res.pos.speed_longitude # 0 /\ res.pos.speed_longitude # NaN
    /\ res.pos.speed_latitude = 0 /\ res.pos.speed_distance = 0

(***************************************************************************)
(* planets.rs calc_sun, with its series evaluated.  Within a century of    *)
(* J2000 binary64 resolves every intermediate of calc_sun far below one    *)
(* unit, so the series are evaluated in whole units: each term is the      *)
(* nearest unit to its value, sums are exact, and deg_norm is the          *)
(* remainder (its guard, 1e-13, is below a unit).  T is kept to a          *)
(* thousandth of a century in the terms of higher order.                   *)
(***************************************************************************)
\* days from J2000 and the hundredths of the day after them
DaysFromJ2000(jd) == (jd - J2000) \div 100
DayPart(jd) == (jd - J2000) % 100

\* T in thousandths of a century
MilliT(jd) ==
    LET n == jd - J2000
    IN  IF n < 0 THEN 0 - Nearest(0 - n, 3652) ELSE Nearest(n, 3652)

\* whole.frac4, a decimal constant with four decimals
Dec4(whole, frac4) == Whole(whole) + Nearest(frac4 * Scale, 10000)

\* rate * T for a rate given in degrees per day, to four decimals
LinearTerm(rate4, jd) ==
    LET perDay == Nearest(rate4 * Scale, 10000)
    IN  DaysFromJ2000(jd) * perDay + Nearest(DayPart(jd) * perDay, 100)

\* coef * T for a coefficient given in millionths of a degree
FirstOrderTerm(coef6, jd) ==
    LET a == Nearest(coef6 * Scale, 1000)
        t == MilliT(jd)
    IN  IF t < 0 THEN 0 - Nearest(a * (0 - t), 1000000)
        ELSE Nearest(a * t, 1000000)

\* coef * T^2 for a coefficient given in ten-millionths of a degree
SecondOrderTerm(coef7, jd) ==
    LET a == Nearest(coef7 * Scale, 10000)
        t == MilliT(jd)
    IN  Nearest(a * Nearest(t * t, 100), 10000000)

\* T^3 / 24490000
ThirdOrderTerm(jd) ==
    LET t  == Abs(MilliT(jd))
        t3 == Nearest(t * Nearest(t * t, 1000), 1000000)
        v  == Nearest(Scale * t3, 24490000)
    IN  IF MilliT(jd) < 0 THEN 0 - v ELSE v

deg_norm_to_the_unit(x) == x % D360

angle_diff_to_the_unit(a1, a2) ==
    LET y == deg_norm_to_the_unit(a1 - a2)
    IN  IF y > D180 THEN y - D360 ELSE y

\* m * DEG_TO_RAD
ToRadians(m) ==
    Nearest((m \div Scale) * PI, 180) + Nearest((m % Scale) * 355, 20340)

\* let l0, let m, let c, let sun_lon of calc_sun
sun_l0(jd) ==
    deg_norm_to_the_unit(Dec4(280, 4665) + LinearTerm(9857, jd)
                             + SecondOrderTerm(3032, jd))

sun_m(jd) ==
    deg_norm_to_the_unit(Dec4(357, 5291) + LinearTerm(9856, jd)
                             - SecondOrderTerm(1536, jd) + ThirdOrderTerm(jd))

sun_c(jd) ==
    LET m_rad == ToRadians(sun_m(jd))
    IN  FMul(Dec4(1, 9146) - FirstOrderTerm(4817, jd) - SecondOrderTerm(140, jd),
             Sin(m_rad))
          + FMul(Nearest(19993 * Scale, 1000000) - FirstOrderTerm(101, jd),
                 Sin(2 * m_rad))
          + FMul(Nearest(29 * Scale, 100000), Sin(3 * m_rad))

sun_lon(jd) == deg_norm_to_the_unit(sun_l0(jd) + sun_c(jd))

\* let l02, let m2, let c2, let sun_lon2 of the speed block
sun_l02(jd2) == deg_norm_to_the_unit(Dec4(280, 4665) + LinearTerm(9857, jd2))

sun_m2(jd2) ==
    ToRadians(deg_norm_to_the_unit(Dec4(357, 5291) + LinearTerm(9856, jd2)))

sun_c2(jd2) ==
    FMul(Dec4(1, 9146), Sin(sun_m2(jd2)))
      + FMul(Nearest(19993 * Scale, 1000000), Sin(2 * sun_m2(jd2)))
      + FMul(Nearest(29 * Scale, 100000), Sin(3 * sun_m2(jd2)))

sun_lon2(jd2) == deg_norm_to_the_unit(sun_l02(jd2) + sun_c2(jd2))

\* a speed block that evaluates the longitude of calc_sun again
sun_speed_by_reevaluation(jd) ==
    angle_diff_to_the_unit(sun_lon(jd + 1), sun_lon(jd)) * 100

\* the speed block: dt = 0.01
sun_speed(jd) == angle_diff_to_the_unit(sun_lon2(jd + 1), sun_lon(jd)) * 100

\* longitude and speed_longitude of the Position calc_sun returns
calc_sun_evaluated(jd, calc_speed) ==
    [longitude |-> sun_lon(jd),
     speed_longitude |-> IF calc_speed THEN sun_speed(jd) ELSE 0]

\* instants within a century of J2000, in hundredths of a day
SunYears == {0, 1, 10, 25, 50, 75, 100}
SunDayParts == {0, 1, 50, 9131}
SunJdSamples ==
    {J2000 + s * (y * 36525 + e) :
         s \in {0 - 1, 1}, y \in SunYears, e \in SunDayParts}

CalcSun(jd, calc_speed) ==
    /\ call = NoCall
    /\ call' = [fn |-> "calc_sun", jd |-> jd, calc_speed |-> calc_speed]
    /\ ret' = calc_sun_evaluated(jd, calc_speed)
    /\ UNCHANGED <<posVars, julVars, houseVars, keplerVars, concVars>>

CalcSunCall ==
    /\ call = NoCall
    /\ \E jd \in SunJdSamples, calc_speed \in BOOLEAN : CalcSun(jd, calc_speed)

\* the caller takes the Position
CalcSunReturn ==
    /\ call # NoCall
    /\ call' = NoCall
    /\ ret' = "none"
    /\ UNCHANGED <<posVars, julVars, houseVars, keplerVars, concVars>>

NextSun == CalcSunCall \/ CalcSunReturn

SpecSun == InitHelpers /\ [][NextSun]_vars

(***************************************************************************)
(* Properties of the speed of the Sun                                      *)
(***************************************************************************)
SunCalled == call.fn = "calc_sun"
AtEpoch(jd) == jd = J2000

\* (L(jd + 0.01) - L(jd)) / 0.01 of the longitude L that calc_sun returns
ForwardDifference(jd) ==
    angle_diff_to_the_unit(sun_lon(jd + 1), sun_lon(jd)) * 100

ZellerSum ==
    LET m == IF call.month < 3 THEN call.month + 12 ELSE call.month
        y == IF call.month < 3 THEN call.year - 1 ELSE call.year
        k == TruncRem(y, 100)
        j == TruncDiv(y, 100)
    IN  call.day + TruncDiv(13 * (m + 1), 5) + k + TruncDiv(k, 4)
            + TruncDiv(j, 4) - 2 * j

\* julday(year, month, day, 12.0, SE_GREG_CAL)
NoonOfCall ==
    julday(call.year, call.month, call.day, DayLen \div 2, SE_GREG_CAL)

InZellerYears == call.year >= 1600 /\ call.year <= 2399

\* C26: for a date of the Gregorian calendar with year 1600..2399 the day of
\* the week get_planetary_hour_ruler derives (0 = Sunday) is
\* (julday(year, month, day, 12.0) + 1) mod 7, also when the sum of Zeller's
\* congruence is negative, and the ruler returned is the one that day and
\* the hour give.
C26_WeekdayAgreesWithJulday ==
    (HourCalled /\ InZellerYears) =>
        LET w == (NoonOfCall.civil + 1) % 7
        IN  /\ 2 * NoonOfCall.frac = JdSteps
            /\ day_of_week(call.year, call.month, call.day) = w
            /\ ret = CHALDEAN_ORDER[((ChaldeanPosition(DAY_RULERS[w + 1])
                                         + call.hour) % 7) + 1]

\* 1 March 2300, a Thursday: the sum is -30
C26_Witness ==
    /\ HourCalled /\ call.year = 2300 /\ call.month = 3 /\ call.day = 1
    /\ call.hour = 0
    /\ ZellerSum = 0 - 30
    /\ day_of_week(call.year, call.month, call.day) = 4
    /\ NoonOfCall.civil = 2561177
    /\ ret = "jupiter"

(***************************************************************************)
(* Properties of a chart compared with itself                              *)
(***************************************************************************)
\* compute_aspects_with_orbs was called with one slice as both charts
SameSlice == AspectsCalled /\ call.chart1 = call.chart2

\* the position of the chart of the call that holds that planet
PositionOf(key) ==
    LET chart == Elements(call.chart1)
    IN  chart[CHOOSE i \in 1..Len(chart) : chart[i].planet_key = key]

\* the entry m of the result is the entry n with the two planets exchanged
Mirrored(n, m) ==
    /\ ret[m].planet1_key = ret[n].planet2_key
    /\ ret[m].planet2_key = ret[n].planet1_key
    /\ ret[m].aspect_type = ret[n].aspect_type
    /\ ret[m].orb = ret[n].orb

\* the two planets of the entry n move at different speeds and their
\* separation is not the angle of the aspect
Decided(n) ==
    LET p1 == PositionOf(ret[n].planet1_key)
        p2 == PositionOf(ret[n].planet2_key)
    IN  /\ p1.speed # p2.speed
        /\ folded_diff(p1.longitude, p2.longitude) # angle(ret[n].aspect_type)

\* C27: when compute_aspects_with_orbs is called with the same slice as both
\* charts, no entry pairs a planet with itself, every entry (A, B, type, orb)
\* has its mirror entry (B, A, type, orb), and the two carry opposite
\* is_applying flags when the speeds differ and the separation is not
\* exactly the aspect angle, and both flags are false otherwise.
C27_SelfAspectsMirrored ==
    SameSlice =>
        \A n \in 1..Len(ret) :
            /\ ret[n].planet1_key # ret[n].planet2_key
            /\ \E m \in 1..Len(ret) : Mirrored(n, m)
            /\ \A m \in 1..Len(ret) :
                   Mirrored(n, m) =>
                       IF Decided(n)
                       THEN ret[n].is_applying # ret[m].is_applying
                       ELSE ~ret[n].is_applying /\ ~ret[m].is_applying

\* Venus at 10, Jupiter at 132 and Saturn at 250 compared with themselves:
\* Jupiter applies to its trine with the slower Saturn and Saturn does not
\* apply to Jupiter; Venus and Jupiter move at one speed, Venus and Saturn
\* are in exact trine, and none of the four entries is applying
C27_Witness ==
    /\ SameSlice
    /\ call.chart1 = [addr |-> 4, len |-> 3]
    /\ \E n, m \in 1..Len(ret) :
           /\ ret[n].planet1_key = "jupiter" /\ ret[n].planet2_key = "saturn"
           /\ ret[n].aspect_type = "Trine" /\ ret[n].orb = Whole(2)
           /\ Mirrored(n, m) /\ ret[n].is_applying /\ ~ret[m].is_applying
    /\ \E n, m \in 1..Len(ret) :
           /\ ret[n].planet1_key = "venus" /\ ret[n].planet2_key = "jupiter"
           /\ PositionOf("venus").speed = PositionOf("jupiter").speed
           /\ Mirrored(n, m) /\ ~ret[n].is_applying /\ ~ret[m].is_applying
    /\ \E n, m \in 1..Len(ret) :
           /\ ret[n].planet1_key = "venus" /\ ret[n].planet2_key = "saturn"
           /\ ret[n].orb = 0
           /\ Mirrored(n, m) /\ ~ret[n].is_applying /\ ~ret[m].is_applying
====
